---- MODULE Spec2Model ----
(***************************************************************************)
(* Telesales dashboard: the position-based row normalizer                  *)
(* (utils/data_processor.py), the metrics engine (utils/metrics.py) and    *)
(* the sheet loader (utils/google_sheets.py).                              *)
(*                                                                         *)
(* Text is a sequence of one-character strings, so that trimming,          *)
(* splitting, substring search and number/date parsing are computed on     *)
(* the characters as the code computes them.  A data frame is a record     *)
(* [cols, rows]: the set of column names and the sequence of row records;  *)
(* a row that lacks a column of its frame holds NaN there.  Currency and   *)
(* rates are integers in hundredths.  Dates are day-granular records       *)
(* [y, m, d]; NaT is the all-zero record.                                  *)
(***************************************************************************)
EXTENDS Integers, Sequences, FiniteSets, TLC

VARIABLES
    raw_values,   \* normalizer call: the raw rows (header first)
    year,         \* normalizer call: the target year
    std,          \* normalizer call: the outcome [op, raised, df]; op "none" before the call
    records,      \* filter/metrics call: the record set passed in
    call,         \* filter/metrics call: the operation and its arguments; op "none" before the call
    kpis,         \* filter/metrics call: the summary calculate_kpis returned
    result,       \* filter/metrics call: the record set a filter returned
    years,        \* load_all_sheets_data: the years argument
    sheet_i,      \* load_all_sheets_data: position in the list of sheets to load
    retry_count,  \* load_sheet_data: the retry_count of the running call
    returned,     \* load_sheet_data: the frames its calls returned so far, in call order
    all_data,     \* load_all_sheets_data: the non-empty frames collected
    combined_df,  \* load_all_sheets_data: the frame returned
    lpc,          \* the loader call in progress: "idle", "load" (load_all_sheets_data in
                  \* its sheet loop), "done", "ftd" (load_ftd_data) or "ftd_done"
    met,          \* load_sheet_data / load_ftd_data: what each fetch of the running (or
                  \* last returned) call met, in order
    waits,        \* load_sheet_data / load_ftd_data: the seconds slept before each retry
                  \* of that call
    cache,        \* st.cache_data: the entries stored, at most one for each function
                  \* and argument tuple: [key, value, age, pre]; age in seconds, pre
                  \* when the entry was stored before a refresh_data()
    served,       \* the calls of cached functions made by the step just taken, nested
                  \* ones included: what each returned and where it came from
    history,      \* for each function and argument tuple, what a run of the function
                  \* body last returned, while that is less than ttl ago and no
                  \* refresh_data() came since: [key, value, age]
    refreshed     \* "yes" when refresh_data() was invoked and nothing loaded since,
                  \* "loaded" when the step just taken was the first load after it,
                  \* "no" otherwise

nvars == <<raw_values, year, std>>
mvars == <<records, call, kpis, result>>
cvars == <<cache, served, history, refreshed>>
lvars == <<years, sheet_i, retry_count, returned, all_data, combined_df, lpc, met, waits, cvars>>

(***************************************************************************)
(* Text helpers (Python str methods)                                       *)
(***************************************************************************)
Digit == {"0", "1", "2", "3", "4", "5", "6", "7", "8", "9"}

DigitVal(c) ==
    CASE c = "0" -> 0 [] c = "1" -> 1 [] c = "2" -> 2 [] c = "3" -> 3
      [] c = "4" -> 4 [] c = "5" -> 5 [] c = "6" -> 6 [] c = "7" -> 7
      [] c = "8" -> 8 [] c = "9" -> 9

Whitespace == {" "}

RECURSIVE LStrip(_)
LStrip(s) ==
    IF s = <<>> THEN s
    ELSE IF Head(s) \in Whitespace THEN LStrip(Tail(s)) ELSE s

RECURSIVE RStrip(_)
RStrip(s) ==
    IF s = <<>> THEN s
    ELSE IF s[Len(s)] \in Whitespace THEN RStrip(SubSeq(s, 1, Len(s) - 1)) ELSE s

\* str.strip()
Strip(s) == RStrip(LStrip(s))

\* str.replace(c, "") for a one-character c
Remove(s, c) == SelectSeq(s, LAMBDA x : x # c)

\* str.split(sep) for a one-character sep: the parts between separators
RECURSIVE SplitFrom(_, _, _, _)
SplitFrom(s, sep, i, cur) ==
    IF i > Len(s) THEN <<cur>>
    ELSE IF s[i] = sep THEN <<cur>> \o SplitFrom(s, sep, i + 1, <<>>)
    ELSE SplitFrom(s, sep, i + 1, Append(cur, s[i]))

Split(s, sep) == SplitFrom(s, sep, 1, <<>>)

IsDigits(s) == Len(s) > 0 /\ \A i \in 1..Len(s) : s[i] \in Digit

RECURSIVE DigitsVal(_)
DigitsVal(s) ==
    IF s = <<>> THEN 0 ELSE DigitsVal(SubSeq(s, 1, Len(s) - 1)) * 10 + DigitVal(s[Len(s)])

\* int(text): surrounding whitespace, an optional sign, at least one digit
PyInt(s) ==
    LET t == Strip(s)
        signed == t # <<>> /\ Head(t) \in {"-", "+"}
        body == IF signed THEN Tail(t) ELSE t
    IN  IF IsDigits(body)
        THEN [ok |-> TRUE,
              v |-> IF signed /\ Head(t) = "-" THEN 0 - DigitsVal(body) ELSE DigitsVal(body)]
        ELSE [ok |-> FALSE, v |-> 0]

(***************************************************************************)
(* Calendar                                                                *)
(***************************************************************************)
NaT == [y |-> 0, m |-> 0, d |-> 0]

IsLeap(y) == (y % 4 = 0 /\ y % 100 # 0) \/ y % 400 = 0

DaysInMonth(y, m) ==
    IF m = 2 THEN (IF IsLeap(y) THEN 29 ELSE 28)
    ELSE IF m \in {4, 6, 9, 11} THEN 30 ELSE 31

\* the whole years a nanosecond Timestamp can hold
YearInBounds(y) == y >= 1678 /\ y <= 2261

ValidDate(y, m, d) ==
    /\ YearInBounds(y)
    /\ m >= 1 /\ m <= 12
    /\ d >= 1 /\ d <= DaysInMonth(y, m)

(***************************************************************************)
(* Schema registry: zero-indexed column positions per dialect              *)
(***************************************************************************)
COLUMN_POSITIONS ==
    [date |-> 0, agent_name |-> 1, recharge_count |-> 3, total_calls |-> 7,
     not_connected |-> 11, answered_calls |-> 19, people_recalled |-> 20]

COLUMN_POSITIONS_2026 ==
    [date |-> 0, agent_name |-> 1, recharge_count |-> 3, total_calls |-> 5,
     not_connected |-> 6, friend_added |-> 8, answered_calls |-> 9,
     people_recalled |-> 10]

FTD_COLUMN_POSITIONS ==
    [date |-> 0, agent_name |-> 1, deposit_amount |-> 2, recharge_count |-> 3,
     daily_target |-> 4, total_calls |-> 5, not_connected |-> 6,
     social_media_added |-> 8, answered_calls |-> 9, people_recalled |-> 10]

\* rows shorter than this are padded with empty cells
PadWidthStd == 26
PadWidthFtd == 15

(***************************************************************************)
(* Cells.  After df.replace('', pd.NA) an empty cell is the NA object,     *)
(* written here as a one-element sequence that no text can equal.          *)
(***************************************************************************)
PdNA == <<"pd.NA">>

\* Series.astype(str) on an object column: text stays, NA becomes "<NA>"
AsTypeStr(cell) == IF cell = PdNA THEN <<"<", "N", "A", ">">> ELSE cell

\* df.replace('', pd.NA) on one cell
ReplaceEmpty(cell) == IF cell = <<>> THEN PdNA ELSE cell

\* row + [''] * (width - len(row))
PadRow(row, width) ==
    IF Len(row) < width THEN row \o [i \in 1..(width - Len(row)) |-> <<>>] ELSE row

\* record[field] = row[col_idx] if col_idx < len(row) else ''
ExtractRecord(row, positions, width) ==
    LET padded == PadRow(row, width)
    IN  [f \in DOMAIN positions |->
            IF positions[f] < Len(padded) THEN padded[positions[f] + 1] ELSE <<>>]

\* dropna(how='all') after the replace: the row is dropped when every field is NA
AllEmpty(rec) == \A f \in DOMAIN rec : rec[f] = <<>>

(***************************************************************************)
(* Date parsing (parse_date)                                               *)
(***************************************************************************)
\* %m or %d: one or two digits naming a value in 1..hi; 0 when no match
StrpField(s, hi) ==
    IF IsDigits(s) /\ Len(s) <= 2 /\ DigitsVal(s) >= 1 /\ DigitsVal(s) <= hi
    THEN DigitsVal(s) ELSE 0

\* %Y: exactly four digits; 0 when no match
StrpYear(s) == IF IsDigits(s) /\ Len(s) = 4 THEN DigitsVal(s) ELSE 0

\* the explicit formats with day/month/year tried before month/day/year
DateFormatsDayFirst ==
    << [sep |-> "-", fields |-> <<"Y", "m", "d">>],
       [sep |-> "/", fields |-> <<"d", "m", "Y">>],
       [sep |-> "/", fields |-> <<"m", "d", "Y">>],
       [sep |-> "-", fields |-> <<"m", "d", "Y">>] >>

\* the explicit formats, in the order they are tried
DateFormats ==
    << [sep |-> "-", fields |-> <<"Y", "m", "d">>],   \* %Y-%m-%d
       [sep |-> "/", fields |-> <<"m", "d", "Y">>],   \* %m/%d/%Y
       [sep |-> "/", fields |-> <<"d", "m", "Y">>],   \* %d/%m/%Y
       [sep |-> "-", fields |-> <<"m", "d", "Y">>] >> \* %m-%d-%Y

\* pd.to_datetime(text, format=fmt): the whole text must match and name a real date
Strptime(s, fmt) ==
    LET parts == Split(s, fmt.sep)
        Part(k) == parts[CHOOSE i \in 1..3 : fmt.fields[i] = k]
        y == StrpYear(Part("Y"))
        m == StrpField(Part("m"), 12)
        d == StrpField(Part("d"), 31)
    IN  IF Len(parts) = 3 /\ y # 0 /\ m # 0 /\ d # 0 /\ ValidDate(y, m, d)
        THEN [ok |-> TRUE, date |-> [y |-> y, m |-> m, d |-> d]]
        ELSE [ok |-> FALSE, date |-> NaT]

\* for fmt in [...]: try ... break: the first format that parses
RECURSIVE TryFormats(_, _)
TryFormats(s, i) ==
    IF i > Len(DateFormats) THEN [ok |-> FALSE, date |-> NaT]
    ELSE IF Strptime(s, DateFormats[i]).ok THEN Strptime(s, DateFormats[i])
    ELSE TryFormats(s, i + 1)

\* parts = date_str.split("/"); month, day = int(parts[0]), int(parts[1]);
\* pd.Timestamp(year=target_year, month=month, day=day); any exception is swallowed
ShortFormat(s, target_year) ==
    LET parts == Split(s, "/")
        m == PyInt(parts[1])
        d == PyInt(parts[2])
    IN  IF Len(parts) = 2 /\ m.ok /\ d.ok /\ ValidDate(target_year, m.v, d.v)
        THEN [ok |-> TRUE, date |-> [y |-> target_year, m |-> m.v, d |-> d.v]]
        ELSE [ok |-> FALSE, date |-> NaT]

\* ReplaceYear without the year override: the parsed date is returned as it is
ReplaceYearKeepsParsed(date, target_year) == [raised |-> FALSE, date |-> date]

\* parsed_date.replace(year=target_year): ValueError when the day does not
\* exist in the target year
ReplaceYear(date, target_year) ==
    IF date.d <= DaysInMonth(target_year, date.m)
    THEN [raised |-> FALSE, date |-> [date EXCEPT !.y = target_year]]
    ELSE [raised |-> TRUE, date |-> NaT]

\* pd.to_datetime(date_str, errors="coerce"), the permissive library parser.
\* A year-first slash date is read as written; a text without any digit (the
\* word texts used here spell no month, weekday or relative day) is NaT; for
\* any other text the library's answer is not fixed by this code, and guess
\* (NaT or a timestamp) stands for it.
GenericParse(s, guess) ==
    LET parts == Split(s, "/")
        y == StrpYear(parts[1])
        m == StrpField(parts[2], 12)
        d == StrpField(parts[3], 31)
    IN  IF Len(parts) = 3 /\ y # 0 /\ m # 0 /\ d # 0
        THEN (IF ValidDate(y, m, d) THEN [y |-> y, m |-> m, d |-> d] ELSE NaT)
        ELSE IF \A i \in 1..Len(s) : s[i] \notin Digit THEN NaT
        ELSE guess

\* parse_date(date_str, target_year); generic is the permissive parser's guess
parse_date(cell, target_year, generic) ==
    IF cell = PdNA \/ cell = <<>> THEN [raised |-> FALSE, date |-> NaT]
    ELSE
        LET date_str == Strip(cell)
            full == TryFormats(date_str, 1)
            short == ShortFormat(date_str, target_year)
            parsed_date == IF full.ok THEN full.date
                           ELSE IF short.ok THEN short.date
                           ELSE GenericParse(date_str, generic)
        IN  IF parsed_date # NaT THEN ReplaceYear(parsed_date, target_year)
            ELSE [raised |-> FALSE, date |-> NaT]

(***************************************************************************)
(* Numeric coercion                                                        *)
(***************************************************************************)
\* the first two fractional digits, as hundredths
Frac2(s) ==
    IF s = <<>> THEN 0
    ELSE IF Len(s) = 1 THEN DigitVal(s[1]) * 10
    ELSE DigitVal(s[1]) * 10 + DigitVal(s[2])

\* pd.to_numeric(text, errors="coerce") on one text: a finite number
\* (c, in hundredths), an infinity or NaN
ToNumeric(s) ==
    LET signed == s # <<>> /\ Head(s) \in {"-", "+"}
        neg == signed /\ Head(s) = "-"
        body == IF signed THEN Tail(s) ELSE s
        parts == Split(body, ".")
        ip == parts[1]
        fp == IF Len(parts) = 2 THEN parts[2] ELSE <<>>
        wellFormed ==
            /\ Len(parts) <= 2
            /\ ip = <<>> \/ IsDigits(ip)
            /\ fp = <<>> \/ IsDigits(fp)
            /\ ip # <<>> \/ fp # <<>>
        mag == (IF ip = <<>> THEN 0 ELSE DigitsVal(ip)) * 100 + Frac2(fp)
    IN  IF body = <<"i", "n", "f">> THEN [kind |-> "inf", c |-> IF neg THEN -1 ELSE 1]
        ELSE IF wellFormed THEN [kind |-> "num", c |-> IF neg THEN 0 - mag ELSE mag]
        ELSE [kind |-> "nan", c |-> 0]

\* .fillna(0)
FillNa0(n) == IF n.kind = "nan" THEN [kind |-> "num", c |-> 0] ELSE n

\* float -> int: truncation toward zero (n is finite)
Trunc(c) == IF c >= 0 THEN c \div 100 ELSE 0 - ((0 - c) \div 100)

\* .astype(int) on a float: IntCastingNaNError on a non-finite value
AsTypeInt(n) ==
    IF n.kind = "num" THEN [raised |-> FALSE, v |-> Trunc(n.c)]
    ELSE [raised |-> TRUE, v |-> 0]

\* standardize_data: .astype(str), drop "," and " ", to_numeric, fillna(0), astype(int)
CleanNumericStd(cell) ==
    AsTypeInt(FillNa0(ToNumeric(Remove(Remove(AsTypeStr(cell), ","), " "))))

\* standardize_ftd_data: .astype(str), drop the peso sign, "," and " ",
\* to_numeric, fillna(0), astype(float)
CleanNumericFtd(cell) ==
    FillNa0(ToNumeric(Remove(Remove(Remove(AsTypeStr(cell), "₱"), ","), " ")))

\* agent_name: .astype(str).str.strip()
CleanAgentName(cell) == Strip(AsTypeStr(cell))

\* df[df["agent_name"] != ""] then df[df["agent_name"] != "nan"]
KeepAgent(name) == name # <<>> /\ name # <<"n", "a", "n">>

(***************************************************************************)
(* Row normalizer: standardize_data, standardize_ftd_data                  *)
(***************************************************************************)
\* pd.DataFrame()
EmptyFrame == [cols |-> {}, rows |-> <<>>]

\* a row cut down to the columns of its frame
Restrict(row, cols) == [c \in (DOMAIN row) \cap cols |-> row[c]]

\* the columns of the frame when no friend_added column is added
EnsureFriendAddedSkipped(cols) == cols

\* if "friend_added" not in df.columns: df["friend_added"] = 0
EnsureFriendAdded(cols) == cols \cup {"friend_added"}

\* df.empty
IsEmpty(df) == df.cols = {} \/ df.rows = <<>>

\* the positions 1..n, in order
Positions(n) == [i \in 1..n |-> i]

numeric_cols ==
    {"recharge_count", "total_calls", "not_connected", "answered_calls",
     "people_recalled", "friend_added"}

ftd_int_cols ==
    {"recharge_count", "daily_target", "total_calls", "not_connected",
     "social_media_added", "answered_calls", "people_recalled"}

\* standardize_data(raw_values, year); generic[i] is the permissive parser's
\* answer for the date text of data row i
standardize_data(raw, target_year, generic) ==
    IF Len(raw) < 2 THEN [raised |-> FALSE, df |-> EmptyFrame]
    ELSE
        LET col_positions ==
                IF target_year = 2026 THEN COLUMN_POSITIONS_2026 ELSE COLUMN_POSITIONS
            n == Len(raw) - 1
            rec(i) == ExtractRecord(raw[i + 1], col_positions, PadWidthStd)
            Cell(i, f) == ReplaceEmpty(rec(i)[f])
            kept == SelectSeq(Positions(n), LAMBDA i : ~AllEmpty(rec(i)))
            date(i) == parse_date(Cell(i, "date"), target_year, generic[i])
            num(i, f) ==
                IF f \in DOMAIN col_positions THEN CleanNumericStd(Cell(i, f))
                ELSE [raised |-> FALSE, v |-> 0]
            raised ==
                \E k \in 1..Len(kept) :
                    \/ date(kept[k]).raised
                    \/ \E f \in numeric_cols : num(kept[k], f).raised
            named == SelectSeq(kept, LAMBDA i : KeepAgent(CleanAgentName(Cell(i, "agent_name"))))
            out(i) ==
                [date |-> date(i).date,
                 agent_name |-> CleanAgentName(Cell(i, "agent_name")),
                 recharge_count |-> num(i, "recharge_count").v,
                 total_calls |-> num(i, "total_calls").v,
                 not_connected |-> num(i, "not_connected").v,
                 answered_calls |-> num(i, "answered_calls").v,
                 people_recalled |-> num(i, "people_recalled").v,
                 friend_added |-> num(i, "friend_added").v,
                 _year |-> target_year,
                 is_present |-> TRUE]
            cols == EnsureFriendAdded(DOMAIN col_positions) \cup {"_year", "is_present"}
        IN  IF raised THEN [raised |-> TRUE, df |-> EmptyFrame]
            ELSE [raised |-> FALSE,
                  df |-> [cols |-> cols,
                          rows |-> [k \in 1..Len(named) |-> Restrict(out(named[k]), cols)]]]

\* standardize_ftd_data(raw_values, year)
standardize_ftd_data(raw, target_year, generic) ==
    IF Len(raw) < 2 THEN [raised |-> FALSE, df |-> EmptyFrame]
    ELSE
        LET n == Len(raw) - 1
            rec(i) == ExtractRecord(raw[i + 1], FTD_COLUMN_POSITIONS, PadWidthFtd)
            Cell(i, f) == ReplaceEmpty(rec(i)[f])
            kept == SelectSeq(Positions(n), LAMBDA i : ~AllEmpty(rec(i)))
            date(i) == parse_date(Cell(i, "date"), target_year, generic[i])
            flt(i, f) == CleanNumericFtd(Cell(i, f))
            int(i, f) == AsTypeInt(flt(i, f))
            raised ==
                \E k \in 1..Len(kept) :
                    \/ date(kept[k]).raised
                    \/ \E f \in ftd_int_cols : int(kept[k], f).raised
            named == SelectSeq(kept, LAMBDA i : KeepAgent(CleanAgentName(Cell(i, "agent_name"))))
            out(i) ==
                [date |-> date(i).date,
                 agent_name |-> CleanAgentName(Cell(i, "agent_name")),
                 deposit_amount |-> flt(i, "deposit_amount"),
                 recharge_count |-> int(i, "recharge_count").v,
                 daily_target |-> int(i, "daily_target").v,
                 total_calls |-> int(i, "total_calls").v,
                 not_connected |-> int(i, "not_connected").v,
                 social_media_added |-> int(i, "social_media_added").v,
                 answered_calls |-> int(i, "answered_calls").v,
                 people_recalled |-> int(i, "people_recalled").v,
                 _year |-> target_year,
                 is_present |-> TRUE]
        IN  IF raised THEN [raised |-> TRUE, df |-> EmptyFrame]
            ELSE [raised |-> FALSE,
                  df |-> [cols |-> DOMAIN FTD_COLUMN_POSITIONS \cup {"_year", "is_present"},
                          rows |-> [k \in 1..Len(named) |-> out(named[k])]]]

(***************************************************************************)
(* Data frame access                                                       *)
(***************************************************************************)
\* a row holds NaN (NaT for a date) in a column of the frame it lacks
HasValue(row, col) == col \in DOMAIN row

\* df[col].sum(): NaN is skipped
RECURSIVE SumRows(_, _)
SumRows(rows, col) ==
    IF rows = <<>> THEN 0
    ELSE (IF HasValue(Head(rows), col) THEN Head(rows)[col] ELSE 0) + SumRows(Tail(rows), col)

\* int(df[col].sum()) if col in df.columns else 0
SumCol(df, col) == IF col \in df.cols THEN SumRows(df.rows, col) ELSE 0

\* the date of a row, NaT when it has none
DateOf(row) == IF HasValue(row, "date") THEN row.date ELSE NaT

\* days since 0000-03-01 of a real date: the order and the distance of dates
DayNum(date) ==
    LET yy == IF date.m <= 2 THEN date.y - 1 ELSE date.y
        mm == IF date.m <= 2 THEN date.m + 9 ELSE date.m - 3
    IN  365 * yy + yy \div 4 - yy \div 100 + yy \div 400 + (153 * mm + 2) \div 5 + date.d - 1

\* Timestamp comparisons; any comparison with NaT is False
DateGE(a, b) == a # NaT /\ b # NaT /\ DayNum(a) >= DayNum(b)
DateLE(a, b) == a # NaT /\ b # NaT /\ DayNum(a) <= DayNum(b)
DateLT(a, b) == a # NaT /\ b # NaT /\ DayNum(a) < DayNum(b)

(***************************************************************************)
(* Filter layer                                                            *)
(***************************************************************************)
\* filter_by_date_range that leaves out the records dated on the end date
FilterByDateRangeOpenEnd(df, start_date, end_date) ==
    IF IsEmpty(df) \/ "date" \notin df.cols THEN df
    ELSE [cols |-> df.cols,
          rows |-> SelectSeq(df.rows,
                     LAMBDA r : DateGE(DateOf(r), start_date) /\ DateLT(DateOf(r), end_date))]

\* filter_by_date_range(df, start_date, end_date)
filter_by_date_range(df, start_date, end_date) ==
    IF IsEmpty(df) \/ "date" \notin df.cols THEN df
    ELSE [cols |-> df.cols,
          rows |-> SelectSeq(df.rows,
                     LAMBDA r : DateGE(DateOf(r), start_date) /\ DateLE(DateOf(r), end_date))]

\* filter_by_team without the empty-selection test: isin([]) matches nothing
FilterByTeamNoEmptyCase(df, teams) ==
    IF IsEmpty(df) \/ "_team" \notin df.cols THEN df
    ELSE [cols |-> df.cols,
          rows |-> SelectSeq(df.rows,
                     LAMBDA r : HasValue(r, "_team") /\ \E i \in 1..Len(teams) : teams[i] = r._team)]

\* filter_by_team(df, teams)
filter_by_team(df, teams) ==
    IF IsEmpty(df) \/ "_team" \notin df.cols \/ teams = <<>> THEN df
    ELSE [cols |-> df.cols,
          rows |-> SelectSeq(df.rows,
                     LAMBDA r : HasValue(r, "_team") /\ \E i \in 1..Len(teams) : teams[i] = r._team)]

\* filter_by_agent(df, agents)
filter_by_agent(df, agents) ==
    IF IsEmpty(df) \/ "agent_name" \notin df.cols \/ agents = <<>> THEN df
    ELSE [cols |-> df.cols,
          rows |-> SelectSeq(df.rows,
                     LAMBDA r : HasValue(r, "agent_name")
                                /\ \E i \in 1..Len(agents) : agents[i] = r.agent_name)]

(***************************************************************************)
(* Metrics engine: calculate_kpis                                          *)
(***************************************************************************)
LowerLetters ==
    <<"a", "b", "c", "d", "e", "f", "g", "h", "i", "j", "k", "l", "m",
      "n", "o", "p", "q", "r", "s", "t", "u", "v", "w", "x", "y", "z">>

UpperLetters ==
    <<"A", "B", "C", "D", "E", "F", "G", "H", "I", "J", "K", "L", "M",
      "N", "O", "P", "Q", "R", "S", "T", "U", "V", "W", "X", "Y", "Z">>

\* str.upper()
Upper(s) ==
    [i \in 1..Len(s) |->
        IF \E k \in 1..Len(LowerLetters) : LowerLetters[k] = s[i]
        THEN UpperLetters[CHOOSE k \in 1..Len(LowerLetters) : LowerLetters[k] = s[i]]
        ELSE s[i]]

\* pat in s
Contains(s, pat) ==
    \E i \in 1..(Len(s) - Len(pat) + 1) : SubSeq(s, i, i + Len(pat) - 1) = pat

\* a leader test that takes the letters ATL anywhere for the assistant marker
IsTlUnlessAtlLetters(name) ==
    /\ \/ Contains(Upper(name), <<"-", " ", "T", "L", " ">>)
       \/ Contains(Upper(name), <<" ", "T", "L", " ">>)
    /\ ~Contains(Upper(name), <<"A", "T", "L">>)

\* ("- TL " in x.upper() or " TL " in x.upper()) and "- ATL " not in x.upper()
is_tl(name) ==
    /\ \/ Contains(Upper(name), <<"-", " ", "T", "L", " ">>)
       \/ Contains(Upper(name), <<" ", "T", "L", " ">>)
    /\ ~Contains(Upper(name), <<"-", " ", "A", "T", "L", " ">>)

\* str(x) of a row's agent_name; a missing name is NaN, "nan"
NameOf(row) == IF HasValue(row, "agent_name") THEN row.agent_name ELSE <<"n", "a", "n">>

\* the distinct agent names of a row sequence (nunique)
AgentNames(rows) ==
    {rows[i].agent_name : i \in {j \in 1..Len(rows) : HasValue(rows[j], "agent_name")}}

\* the latest date of a row sequence that has one
MaxDate(rows) ==
    CHOOSE x \in {DateOf(rows[i]) : i \in 1..Len(rows)} :
        x # NaT /\ \A i \in 1..Len(rows) : DateOf(rows[i]) = NaT \/ DateLE(DateOf(rows[i]), x)

\* get_active_agents_count(df, days)
get_active_agents_count(df, days) ==
    IF IsEmpty(df) \/ "agent_name" \notin df.cols THEN 0
    ELSE
        LET present ==
                IF "is_present" \in df.cols
                THEN SelectSeq(df.rows, LAMBDA r : HasValue(r, "is_present") /\ r.is_present)
                ELSE df.rows
            dated == "date" \in df.cols /\ \E i \in 1..Len(present) : DateOf(present[i]) # NaT
            recent ==
                IF dated
                THEN SelectSeq(present,
                        LAMBDA r : DateOf(r) # NaT
                                   /\ DayNum(DateOf(r)) >= DayNum(MaxDate(present)) - days)
                ELSE present
        IN  IF present = <<>> THEN 0 ELSE Cardinality(AgentNames(recent))

\* round(x, 2) of x = num / den * 100, in hundredths, ties to even
Round2Pct(num, den) ==
    LET q == (num * 10000) \div den
        r == (num * 10000) % den
    IN  IF 2 * r > den THEN q + 1
        ELSE IF 2 * r < den THEN q
        ELSE IF q % 2 = 0 THEN q ELSE q + 1

\* a rate that reports 100 percent on an empty denominator
RateFullOnZero(num, den) == IF den > 0 THEN Round2Pct(num, den) ELSE 10000

\* (num / den * 100) if den > 0 else 0.0, rounded to two places
Rate(num, den) == IF den > 0 THEN Round2Pct(num, den) ELSE 0

\* the FTD accounting cutoff, pd.Timestamp(2026, 1, 6)
jan6_2026 == [y |-> 2026, m |-> 1, d |-> 6]

\* the recall split that counts a leader's recalls on both sides
VipRecalledOfAll(df) ==
    IF "agent_name" \in df.cols /\ "people_recalled" \in df.cols
    THEN SumRows(df.rows, "people_recalled")
    ELSE 0

\* vip_recalled: the people_recalled of the leader rows
VipRecalled(df) ==
    IF "agent_name" \in df.cols /\ "people_recalled" \in df.cols
    THEN SumRows(SelectSeq(df.rows, LAMBDA r : is_tl(NameOf(r))), "people_recalled")
    ELSE 0

\* people_recalled: the people_recalled of the other rows
PeopleRecalled(df) ==
    IF "agent_name" \in df.cols /\ "people_recalled" \in df.cols
    THEN SumRows(SelectSeq(df.rows, LAMBDA r : ~is_tl(NameOf(r))), "people_recalled")
    ELSE SumCol(df, "people_recalled")

\* ftd_team_df = df[df["_team"] == "FTD TEAM"], when the three columns exist
FtdTeamRows(df) ==
    IF "_team" \in df.cols /\ "ftd_count" \in df.cols /\ "date" \in df.cols
    THEN SelectSeq(df.rows, LAMBDA r : HasValue(r, "_team") /\ r._team = "FTD TEAM")
    ELSE <<>>

\* ftd_result with the cutoff day itself counted as before the cutoff
FtdResultThroughCutoff(df) ==
    SumRows(SelectSeq(FtdTeamRows(df), LAMBDA r : DateLE(DateOf(r), jan6_2026)), "ftd_count")

\* ftd_result: ftd_count of the FTD team before the cutoff
FtdResult(df) ==
    SumRows(SelectSeq(FtdTeamRows(df), LAMBDA r : DateLT(DateOf(r), jan6_2026)), "ftd_count")

\* an accounting that folds the FTD team's recharge_count of the days from the
\* cutoff on into the recharges once more
FtdAsRechargeOfRecharge(df) ==
    IF "_team" \in df.cols /\ "date" \in df.cols
    THEN SumRows(SelectSeq(df.rows,
                   LAMBDA r : HasValue(r, "_team") /\ r._team = "FTD TEAM"
                              /\ DateGE(DateOf(r), jan6_2026)), "recharge_count")
    ELSE 0

\* ftd_as_recharge: ftd_count of the FTD team on or after the cutoff
FtdAsRecharge(df) ==
    SumRows(SelectSeq(FtdTeamRows(df), LAMBDA r : DateGE(DateOf(r), jan6_2026)), "ftd_count")

\* a summary of an empty frame that reports a full connection rate
KpisFullRateOnEmpty ==
    [active_agents |-> 0, recharge_count |-> 0, total_calls |-> 0, answered_calls |-> 0,
     not_connected |-> 0, connection_rate |-> 10000, people_recalled |-> 0, vip_recalled |-> 0,
     friend_added |-> 0, ftd_result |-> 0, conversion_rate_calls |-> 0,
     conversion_rate_recalled |-> 0]

\* the summary of an empty frame
ZeroKpis ==
    [active_agents |-> 0, recharge_count |-> 0, total_calls |-> 0, answered_calls |-> 0,
     not_connected |-> 0, connection_rate |-> 0, people_recalled |-> 0, vip_recalled |-> 0,
     friend_added |-> 0, ftd_result |-> 0, conversion_rate_calls |-> 0,
     conversion_rate_recalled |-> 0]

\* calculate_kpis(df)
calculate_kpis(df) ==
    IF IsEmpty(df) THEN ZeroKpis
    ELSE
        LET total_calls == SumCol(df, "total_calls")
            answered_calls == SumCol(df, "answered_calls")
            vip_recalled == VipRecalled(df)
            people_recalled == PeopleRecalled(df)
            total_recalled == people_recalled + vip_recalled
        IN  [active_agents |-> get_active_agents_count(df, 7),
             recharge_count |-> SumCol(df, "recharge_count") + FtdAsRecharge(df),
             total_calls |-> total_calls,
             answered_calls |-> answered_calls,
             not_connected |-> SumCol(df, "not_connected"),
             connection_rate |-> Rate(answered_calls, total_calls),
             people_recalled |-> people_recalled,
             vip_recalled |-> vip_recalled,
             friend_added |-> SumCol(df, "friend_added"),
             ftd_result |-> FtdResult(df),
             conversion_rate_calls |-> Rate(answered_calls, total_calls),
             conversion_rate_recalled |-> Rate(total_recalled, answered_calls)]

(***************************************************************************)
(* Inputs of the normalizer: raw row sets built from a small stock of      *)
(* cell texts                                                              *)
(***************************************************************************)
EmptyCell == <<>>

DateIso == <<"2", "0", "2", "4", "-", "0", "3", "-", "0", "5">>  \* "2024-03-05"
DateIsoLeap == <<"2", "0", "2", "4", "-", "0", "2", "-", "2", "9">>  \* "2024-02-29"
DateMDY == <<"1", "1", "/", "0", "2", "/", "2", "0", "2", "4">>  \* "11/02/2024"
DateDMY == <<"1", "3", "/", "0", "2", "/", "2", "0", "2", "4">>  \* "13/02/2024"
DateMDYLeap == <<"0", "2", "/", "2", "9", "/", "2", "0", "2", "4">>  \* "02/29/2024"
DateDashMDY == <<"1", "1", "-", "0", "2", "-", "2", "0", "2", "4">>  \* "11-02-2024"
DateShort == <<"1", "1", "/", "0", "2">>  \* "11/02"
DateShortPadded == <<" ", "1", "1", "/", "0", "2", " ">>  \* " 11/02 "
DateShortLeap == <<"2", "/", "2", "9">>  \* "2/29"
DateYearFirstSlash == <<"2", "0", "2", "4", "/", "0", "2", "/", "2", "8">>  \* "2024/02/28"
DateWords == <<"a", "b", "c">>  \* "abc"

AgentBlank == <<" ">>  \* " "
AgentNan == <<"n", "a", "n">>  \* "nan"
AgentNanPadded == <<" ", "n", "a", "n", " ">>  \* " nan "
AgentAna == <<"A", "N", "A">>  \* "ANA"
AgentBoPadded == <<" ", "B", "O", " ">>  \* " BO "

NumFive == <<"5">>  \* "5"
NumGrouped == <<"1", ",", "0", "0", "0">>  \* "1,000"
NumPeso == <<"₱", "1", ",", "0", "0", "0">>  \* "₱1,000"
NumWords == <<"a", "b", "c">>  \* "abc"
NumInf == <<"i", "n", "f">>  \* "inf"
NumNegative == <<"-", "3">>  \* "-3"
NumDecimal == <<"2", ".", "5">>  \* "2.5"
NumSpaced == <<"1", " ", "0">>  \* "1 0"

DateCells ==
    {EmptyCell, DateIso, DateIsoLeap, DateMDY, DateDMY, DateMDYLeap, DateDashMDY,
     DateShort, DateShortPadded, DateShortLeap, DateYearFirstSlash, DateWords}

AgentCells == {EmptyCell, AgentBlank, AgentNan, AgentNanPadded, AgentAna, AgentBoPadded}

NumCells ==
    {EmptyCell, NumFive, NumGrouped, NumPeso, NumWords, NumInf, NumNegative,
     NumDecimal, NumSpaced}

\* a row of len cells: the date, the agent, then the same numeric text in every
\* further column
MkRow(d, a, n, len) == [i \in 1..len |-> IF i = 1 THEN d ELSE IF i = 2 THEN a ELSE n]

\* a row long enough to fill every column any dialect reads
FullWidth == 21

RowWidths == {0, 1, 2, 4, 10, FullWidth}

RowChoices ==
    {MkRow(d, AgentAna, NumFive, FullWidth) : d \in DateCells}
    \cup {MkRow(DateShort, a, NumFive, FullWidth) : a \in AgentCells}
    \cup {MkRow(DateShort, AgentAna, n, FullWidth) : n \in NumCells}
    \cup {MkRow(DateShort, AgentAna, NumFive, w) : w \in RowWidths}
    \cup {MkRow(EmptyCell, EmptyCell, EmptyCell, FullWidth),
          MkRow(EmptyCell, EmptyCell, NumFive, FullWidth),
          MkRow(EmptyCell, AgentBoPadded, EmptyCell, FullWidth)}

\* the rows that follow the first data row in a longer row set
TailRows ==
    {MkRow(DateIso, AgentBoPadded, NumGrouped, FullWidth),
     MkRow(EmptyCell, EmptyCell, EmptyCell, FullWidth),
     MkRow(DateShort, EmptyCell, NumFive, FullWidth)}

HeaderRow == << <<"D">>, <<"A">> >>

\* the most data rows in a raw row set
MaxRows == 2

RawChoices ==
    {<<>>, <<HeaderRow>>}
    \cup UNION {{<<HeaderRow, r>> \o t : r \in RowChoices, t \in [1..(k - 1) -> TailRows]}
                : k \in 1..MaxRows}

\* the year argument: the two years a layout is written for, and another
Years == {2025, 2026, 2027}

\* what the permissive parser may guess for a text it is given.  Only the first
\* data row of a row set carries a date text that can reach it (the TailRows
\* parse by an explicit or the short format), so one answer per call covers
\* every row.
GenericOutcomes == {NaT, [y |-> 2024, m |-> 3, d |-> 5]}

NormIdle ==
    /\ raw_values = <<>>
    /\ year = 2025
    /\ std = [op |-> "none", raised |-> FALSE, df |-> EmptyFrame]

NoCall ==
    [op |-> "none", teams |-> <<>>, agents |-> <<>>, start_date |-> NaT, end_date |-> NaT,
     metric |-> "", top_n |-> 0, raised |-> FALSE]

MetricsIdle ==
    /\ records = EmptyFrame
    /\ call = NoCall
    /\ kpis = ZeroKpis
    /\ result = EmptyFrame

\* nothing cached, nothing loaded yet
CacheIdle ==
    /\ cache = {}
    /\ refreshed = "no"
    /\ served = {}
    /\ history = {}

LoadIdle ==
    /\ years = <<>>
    /\ sheet_i = 1
    /\ retry_count = 0
    /\ returned = <<>>
    /\ all_data = <<>>
    /\ combined_df = EmptyFrame
    /\ lpc = "idle"
    /\ met = <<>>
    /\ waits = <<>>
    /\ CacheIdle

vars == <<nvars, mvars, lvars>>

InitNorm ==
    /\ raw_values \in RawChoices
    /\ year \in Years
    /\ std = [op |-> "none", raised |-> FALSE, df |-> EmptyFrame]
    /\ MetricsIdle
    /\ LoadIdle

\* a call of standardize_data(raw_values, year)
StandardizeData ==
    /\ std.op = "none"
    /\ \E g \in GenericOutcomes :
          LET r == standardize_data(raw_values, year, [i \in 1..MaxRows |-> g])
          IN  std' = [op |-> "standardize_data", raised |-> r.raised, df |-> r.df]
    /\ UNCHANGED <<raw_values, year, mvars, lvars>>

\* a call of standardize_ftd_data(raw_values, year)
StandardizeFtdData ==
    /\ std.op = "none"
    /\ \E g \in GenericOutcomes :
          LET r == standardize_ftd_data(raw_values, year, [i \in 1..MaxRows |-> g])
          IN  std' = [op |-> "standardize_ftd_data", raised |-> r.raised, df |-> r.df]
    /\ UNCHANGED <<raw_values, year, mvars, lvars>>

NextNorm == StandardizeData \/ StandardizeFtdData

SpecNorm == InitNorm /\ [][NextNorm]_vars

(***************************************************************************)
(* The frame a filter or a metrics operation was given, after the call     *)
(***************************************************************************)
\* the frame after a call that assigns the rank columns into it
AfterCallRanked(df) ==
    [cols |-> df.cols \cup {"answered_calls_rank"},
     rows |-> [i \in 1..Len(df.rows) |-> [answered_calls_rank |-> 1] @@ df.rows[i]]]

\* the frame after a call: the filters index it (df[mask]) or return it, the
\* metrics operations read it; every assignment goes to a frame the operation
\* built itself (metrics, team_metrics; export_df is a copy)
AfterCall(df) == df

(***************************************************************************)
(* Inputs of the filter layer and the metrics engine: record sets built    *)
(* from a small stock of records                                           *)
(***************************************************************************)
NameAgent == <<"A", "N", "A">>  \* "ANA"
NameAgent2 == <<"B", "O">>  \* "BO"
NameLeader == <<"M", "I", " ", "-", " ", "T", "L", " ", "A">>  \* "MI - TL A"
NameAssistant == <<"J", "O", " ", "-", " ", "A", "T", "L", " ", "A">>  \* "JO - ATL A"

\* who submitted a record, and the provenance tags of the sheet it came from
Who ==
    {[agent_name |-> NameAgent, _team |-> "TEAM A", _team_leader |-> "ONI"],
     [agent_name |-> NameLeader, _team |-> "TEAM A", _team_leader |-> "ONI"],
     [agent_name |-> NameAssistant, _team |-> "TEAM B", _team_leader |-> "ONI"],
     [agent_name |-> NameAgent2, _team |-> "FTD TEAM", _team_leader |-> "ANDREI"]}

DayBeforeCutoff == [y |-> 2026, m |-> 1, d |-> 5]

RecordDates == {NaT, DayBeforeCutoff, jan6_2026}

\* the largest count in a stock record
MaxCount == 1

MkRec(who, date, total, answered, recalled, ftd) ==
    [date |-> date, agent_name |-> who.agent_name, recharge_count |-> 1,
     total_calls |-> total, not_connected |-> total, answered_calls |-> answered,
     people_recalled |-> recalled, friend_added |-> 0, ftd_count |-> ftd,
     _year |-> 2026, is_present |-> TRUE, _team |-> who._team,
     _team_leader |-> who._team_leader]

RecStock ==
    {MkRec(w, d, 1, 1, 1, 2) : w \in Who, d \in RecordDates}
    \cup {MkRec([agent_name |-> NameAgent, _team |-> "TEAM A", _team_leader |-> "ONI"],
                DayBeforeCutoff, t, a, r, 2)
          : t \in 0..MaxCount, a \in 0..MaxCount, r \in 0..MaxCount}

\* the records that follow the first record in a longer record set
TailRecs ==
    {MkRec([agent_name |-> NameLeader, _team |-> "TEAM A", _team_leader |-> "ONI"],
           DayBeforeCutoff, 1, 1, 1, 2),
     MkRec([agent_name |-> NameAgent2, _team |-> "FTD TEAM", _team_leader |-> "ANDREI"],
           DayBeforeCutoff, 1, 0, 0, 1),
     MkRec([agent_name |-> NameAgent2, _team |-> "FTD TEAM", _team_leader |-> "ANDREI"],
           jan6_2026, 1, 1, 0, 1),
     MkRec([agent_name |-> NameAgent, _team |-> "TEAM A", _team_leader |-> "ONI"],
           NaT, 1, 1, 1, 2)}

\* the most records in a record set
MaxRecs == 3

RowSeqs ==
    UNION {{<<r>> \o t : r \in RecStock, t \in [1..(k - 1) -> TailRecs]} : k \in 1..MaxRecs}

\* the columns of a loaded frame, the same with an ftd_count column, and the
\* same without the agent_name column
LoadedCols ==
    {"date", "agent_name", "recharge_count", "total_calls", "not_connected",
     "answered_calls", "people_recalled", "friend_added", "_year", "is_present",
     "_team", "_team_leader"}

ColumnSets == {LoadedCols, LoadedCols \cup {"ftd_count"}, LoadedCols \ {"agent_name"}}

RecordSets ==
    {EmptyFrame}
    \cup {[cols |-> cs, rows |-> [i \in 1..Len(rs) |-> Restrict(rs[i], cs)]]
          : cs \in ColumnSets, rs \in RowSeqs}

TeamSelections == {<<>>, <<"TEAM A">>, <<"TEAM B", "FTD TEAM">>, <<"TEAM Z">>}

AgentSelections == {<<>>, <<NameAgent>>, <<NameLeader, NameAgent2>>}

RangeDates == {[y |-> 2026, m |-> 1, d |-> 4], DayBeforeCutoff, jan6_2026}

InitMetrics ==
    /\ NormIdle
    /\ records \in RecordSets
    /\ call = NoCall
    /\ kpis = ZeroKpis
    /\ result = EmptyFrame
    /\ LoadIdle

\* kpis = calculate_kpis(df)
CalculateKpis ==
    /\ call.op = "none"
    /\ call' = [call EXCEPT !.op = "calculate_kpis"]
    /\ kpis' = calculate_kpis(records)
    /\ records' = AfterCall(records)
    /\ UNCHANGED <<nvars, lvars, result>>

\* filter_by_team(df, teams)
FilterByTeam ==
    /\ call.op = "none"
    /\ \E teams \in TeamSelections :
          /\ call' = [call EXCEPT !.op = "filter_by_team", !.teams = teams]
          /\ result' = filter_by_team(records, teams)
    /\ records' = AfterCall(records)
    /\ UNCHANGED <<nvars, lvars, kpis>>

\* filter_by_agent(df, agents)
FilterByAgent ==
    /\ call.op = "none"
    /\ \E agents \in AgentSelections :
          /\ call' = [call EXCEPT !.op = "filter_by_agent", !.agents = agents]
          /\ result' = filter_by_agent(records, agents)
    /\ records' = AfterCall(records)
    /\ UNCHANGED <<nvars, lvars, kpis>>

\* filter_by_date_range(df, start_date, end_date)
FilterByDateRange ==
    /\ call.op = "none"
    /\ \E s \in RangeDates, e \in RangeDates :
          /\ call' = [call EXCEPT !.op = "filter_by_date_range",
                                  !.start_date = s, !.end_date = e]
          /\ result' = filter_by_date_range(records, s, e)
    /\ records' = AfterCall(records)
    /\ UNCHANGED <<nvars, lvars, kpis>>

NextMetrics == CalculateKpis \/ FilterByTeam \/ FilterByAgent \/ FilterByDateRange

SpecMetrics == InitMetrics /\ [][NextMetrics]_vars

(***************************************************************************)
(* Empty inputs: the normalizer on a row set and calculate_kpis on what    *)
(* the team filter leaves of a record set                                  *)
(***************************************************************************)
\* the frames filter_by_team leaves: whole, thinned out, or with no row left
FilteredSets == {filter_by_team(rs, teams) : rs \in RecordSets, teams \in TeamSelections}

InitEmpty ==
    /\ raw_values \in RawChoices
    /\ year \in Years
    /\ std = [op |-> "none", raised |-> FALSE, df |-> EmptyFrame]
    /\ records \in FilteredSets
    /\ Len(raw_values) < 2 \/ records = EmptyFrame
    /\ call = NoCall
    /\ kpis = ZeroKpis
    /\ result = EmptyFrame
    /\ LoadIdle

NextEmpty == StandardizeData \/ StandardizeFtdData \/ CalculateKpis

SpecEmpty == InitEmpty /\ [][NextEmpty]_vars

(***************************************************************************)
(* Grouped metrics: calculate_team_metrics                                 *)
(***************************************************************************)
RECURSIVE GCD(_, _)
GCD(a, b) == IF b = 0 THEN a ELSE GCD(b, a % b)

\* an unrounded quotient n / d (d > 0), in lowest terms
Frac(n, d) ==
    LET g == GCD(IF n < 0 THEN 0 - n ELSE n, d)
    IN  [n |-> n \div g, d |-> d \div g]

FracLT(a, b) == a.n * b.d < b.n * a.d

\* np.where(den > 0, num / den * 100, 0)
Pct(num, den) == IF den > 0 THEN Frac(num * 100, den) ELSE Frac(0, 1)

\* the team names in str order: groupby sorts its keys
SortedTeams == <<"FTD TEAM", "TEAM A", "TEAM B", "TEAM C", "TEAM Z">>

\* the groups of groupby("_team"): the teams that have rows, in key order
TeamKeys(df) ==
    SelectSeq(SortedTeams,
        LAMBDA t : \E i \in 1..Len(df.rows) :
                      HasValue(df.rows[i], "_team") /\ df.rows[i]._team = t)

\* the rows of one team, in input order
TeamRows(df, t) == SelectSeq(df.rows, LAMBDA r : HasValue(r, "_team") /\ r._team = t)

\* the columns summed per group
sum_cols ==
    {"recharge_count", "total_calls", "answered_calls", "not_connected",
     "people_recalled", "friend_added"}

\* the rate columns added to a grouped frame that has their operands
RateCols(cols) ==
    (IF {"answered_calls", "total_calls"} \subseteq cols THEN {"connection_rate"} ELSE {})
    \cup (IF {"people_recalled", "answered_calls"} \subseteq cols
          THEN {"conversion_rate_recalled"} ELSE {})

\* the team leader of the last row of a group
LastLeader(grp) ==
    LET idx == {i \in 1..Len(grp) : HasValue(grp[i], "_team_leader")}
    IN  grp[CHOOSE i \in idx : \A j \in idx : j <= i]._team_leader

\* groupby("_team")["_team_leader"].first(): of the first row that has one
FirstLeader(grp) ==
    LET idx == {i \in 1..Len(grp) : HasValue(grp[i], "_team_leader")}
    IN  grp[CHOOSE i \in idx : \A j \in idx : i <= j]._team_leader

\* calculate_team_metrics(df)
calculate_team_metrics(df) ==
    IF IsEmpty(df) \/ "_team" \notin df.cols THEN EmptyFrame
    ELSE IF ({"agent_name"} \cup sum_cols) \cap df.cols = {} THEN EmptyFrame
    ELSE
        LET keys == TeamKeys(df)
            agg == (IF "agent_name" \in df.cols THEN {"active_agents"} ELSE {})
                   \cup (sum_cols \cap df.cols)
            cols == {"team"} \cup agg \cup RateCols(agg)
                    \cup (IF "_team_leader" \in df.cols THEN {"team_leader"} ELSE {})
            row(t) ==
                LET grp == TeamRows(df, t)
                    answered == SumRows(grp, "answered_calls")
                IN  [team |-> t,
                     active_agents |-> Cardinality(AgentNames(grp)),
                     recharge_count |-> SumRows(grp, "recharge_count"),
                     total_calls |-> SumRows(grp, "total_calls"),
                     answered_calls |-> answered,
                     not_connected |-> SumRows(grp, "not_connected"),
                     people_recalled |-> SumRows(grp, "people_recalled"),
                     friend_added |-> SumRows(grp, "friend_added"),
                     connection_rate |-> Pct(answered, SumRows(grp, "total_calls")),
                     conversion_rate_recalled |-> Pct(SumRows(grp, "people_recalled"), answered),
                     team_leader |->
                         IF "_team_leader" \in df.cols THEN FirstLeader(grp) ELSE ""]
        IN  [cols |-> cols, rows |-> [k \in 1..Len(keys) |-> Restrict(row(keys[k]), cols)]]

(***************************************************************************)
(* Grouped metrics: calculate_team_comparison                              *)
(***************************************************************************)
\* the columns that hold unrounded rates
rate_cols == {"connection_rate", "conversion_rate_recalled", "ftd_conversion_rate"}

\* the value of a numeric column of a grouped row, as a quotient
Value(row, metric) ==
    IF metric \in rate_cols THEN row[metric] ELSE [n |-> row[metric], d |-> 1]

\* the orders of the positions 1..n
Perms(n) == {p \in [1..n -> 1..n] : \A i, j \in 1..n : i # j => p[i] # p[j]}

\* the orders that put the rows in descending order of a column
DescOrders(rows, metric) ==
    {p \in Perms(Len(rows)) :
        \A i \in 1..(Len(rows) - 1) :
            ~FracLT(Value(rows[p[i]], metric), Value(rows[p[i + 1]], metric))}

\* rank(ascending=False, method="dense"): tied rows share a rank and the next
\* rank follows without a gap
RankDescDense(rows, metric, k) ==
    Cardinality({Value(rows[j], metric) :
                    j \in {i \in 1..Len(rows) :
                              ~FracLT(Value(rows[i], metric), Value(rows[k], metric))}})

\* rank(ascending=False, method="min") of row k: the first place, in
\* descending order, of a row with its value
RankDesc(rows, metric, k) ==
    LET p == CHOOSE q \in DescOrders(rows, metric) : TRUE
        places == {i \in 1..Len(rows) : Value(rows[p[i]], metric) = Value(rows[k], metric)}
    IN  CHOOSE i \in places : \A j \in places : i <= j

ranked_metrics == {"answered_calls", "connection_rate", "people_recalled"}

\* sort_values("answered_calls") on a frame without that column: KeyError
TeamComparisonRaises(df) ==
    LET team_metrics == calculate_team_metrics(df)
    IN  ~IsEmpty(team_metrics) /\ "answered_calls" \notin team_metrics.cols

\* the orders sort_values("answered_calls", ascending=False) may leave the
\* teams in: the sort is not stable, so tied teams come in any order
TeamComparisonOrders(df) ==
    LET team_metrics == calculate_team_metrics(df)
    IN  IF IsEmpty(team_metrics) \/ TeamComparisonRaises(df) THEN {<<>>}
        ELSE DescOrders(team_metrics.rows, "answered_calls")

\* calculate_team_comparison(df), the teams sorted in the given order
calculate_team_comparison(df, order) ==
    LET team_metrics == calculate_team_metrics(df)
        rows == team_metrics.rows
        rank(k, metric) ==
            IF metric \in team_metrics.cols THEN RankDesc(rows, metric, k) ELSE 0
        cols == team_metrics.cols
                \cup (IF "answered_calls" \in team_metrics.cols
                      THEN {"answered_calls_rank"} ELSE {})
                \cup (IF "connection_rate" \in team_metrics.cols
                      THEN {"connection_rate_rank"} ELSE {})
                \cup (IF "people_recalled" \in team_metrics.cols
                      THEN {"people_recalled_rank"} ELSE {})
        row(k) ==
            [answered_calls_rank |-> rank(k, "answered_calls"),
             connection_rate_rank |-> rank(k, "connection_rate"),
             people_recalled_rank |-> rank(k, "people_recalled")] @@ rows[k]
    IN  IF IsEmpty(team_metrics) THEN EmptyFrame
        ELSE [cols |-> cols,
              rows |-> [i \in 1..Len(rows) |-> Restrict(row(order[i]), cols)]]

(***************************************************************************)
(* Grouped metrics: calculate_agent_metrics, get_top_performers            *)
(***************************************************************************)
\* ord(c) for the characters of names; any other character sorts after them
CodePoint(c) ==
    IF c = " " THEN 32
    ELSE IF c = "-" THEN 45
    ELSE IF c \in Digit THEN 48 + DigitVal(c)
    ELSE IF \E k \in 1..26 : UpperLetters[k] = c
         THEN 64 + (CHOOSE k \in 1..26 : UpperLetters[k] = c)
    ELSE IF \E k \in 1..26 : LowerLetters[k] = c
         THEN 96 + (CHOOSE k \in 1..26 : LowerLetters[k] = c)
    ELSE 8369

\* a < b for str
RECURSIVE StrLT(_, _)
StrLT(a, b) ==
    IF b = <<>> THEN FALSE
    ELSE IF a = <<>> THEN TRUE
    ELSE IF Head(a) # Head(b) THEN CodePoint(Head(a)) < CodePoint(Head(b))
    ELSE StrLT(Tail(a), Tail(b))

TeamRank(t) == CHOOSE i \in 1..Len(SortedTeams) : SortedTeams[i] = t

\* the order of the group keys (agent_name, _team)
KeyLT(a, b) ==
    \/ StrLT(a.agent_name, b.agent_name)
    \/ a.agent_name = b.agent_name /\ TeamRank(a._team) < TeamRank(b._team)

\* the group key of a row; rows of a frame without _team have one team
AgentKey(df, r) ==
    [agent_name |-> r.agent_name,
     _team |-> IF "_team" \in df.cols THEN r._team ELSE SortedTeams[1]]

\* the groups of groupby(group_cols), in key order
AgentKeys(df) ==
    LET keys == {AgentKey(df, df.rows[i]) : i \in 1..Len(df.rows)}
    IN  [i \in 1..Cardinality(keys) |->
            CHOOSE k \in keys : Cardinality({x \in keys : KeyLT(x, k)}) = i - 1]

\* calculate_agent_metrics(df)
calculate_agent_metrics(df) ==
    IF IsEmpty(df) \/ "agent_name" \notin df.cols THEN EmptyFrame
    ELSE IF sum_cols \cap df.cols = {} THEN EmptyFrame
    ELSE
        LET keys == AgentKeys(df)
            agg == sum_cols \cap df.cols
            cols == {"agent_name"} \cup (IF "_team" \in df.cols THEN {"team"} ELSE {})
                    \cup agg \cup RateCols(agg)
            row(key) ==
                LET grp == SelectSeq(df.rows, LAMBDA r : AgentKey(df, r) = key)
                    answered == SumRows(grp, "answered_calls")
                IN  [agent_name |-> key.agent_name,
                     team |-> key._team,
                     recharge_count |-> SumRows(grp, "recharge_count"),
                     total_calls |-> SumRows(grp, "total_calls"),
                     answered_calls |-> answered,
                     not_connected |-> SumRows(grp, "not_connected"),
                     people_recalled |-> SumRows(grp, "people_recalled"),
                     friend_added |-> SumRows(grp, "friend_added"),
                     connection_rate |-> Pct(answered, SumRows(grp, "total_calls")),
                     conversion_rate_recalled |-> Pct(SumRows(grp, "people_recalled"), answered)]
        IN  [cols |-> cols, rows |-> [k \in 1..Len(keys) |-> Restrict(row(keys[k]), cols)]]

\* the text columns of a grouped frame
text_cols == {"agent_name", "team", "team_leader"}

\* the descending order that puts the later of two tied rows first
LastFirstDesc(rows, metric) ==
    CHOOSE p \in DescOrders(rows, metric) :
        \A i \in 1..(Len(rows) - 1) :
            Value(rows[p[i]], metric) = Value(rows[p[i + 1]], metric) => p[i] > p[i + 1]

\* the descending order of a stable sort: tied rows keep their order
StableDesc(rows, metric) ==
    CHOOSE p \in DescOrders(rows, metric) :
        \A i \in 1..(Len(rows) - 1) :
            Value(rows[p[i]], metric) = Value(rows[p[i + 1]], metric) => p[i] < p[i + 1]

\* frame.nlargest(n, metric), keep="first", on a numeric column
nlargest(df, n, metric) ==
    LET p == StableDesc(df.rows, metric)
        m == IF n < Len(df.rows) THEN n ELSE Len(df.rows)
    IN  IF n <= 0 THEN [cols |-> df.cols, rows |-> <<>>]
        ELSE [cols |-> df.cols, rows |-> [i \in 1..m |-> df.rows[p[i]]]]

\* nlargest on a column of text: TypeError
TopPerformersRaises(df, metric) ==
    LET agent_metrics == calculate_agent_metrics(df)
    IN  ~IsEmpty(agent_metrics) /\ metric \in agent_metrics.cols /\ metric \in text_cols

\* get_top_performers(df, metric, top_n)
get_top_performers(df, metric, top_n) ==
    LET agent_metrics == calculate_agent_metrics(df)
    IN  IF IsEmpty(agent_metrics) \/ metric \notin agent_metrics.cols THEN EmptyFrame
        ELSE nlargest(agent_metrics, top_n, metric)

(***************************************************************************)
(* Grouped metrics: calculate_daily_metrics                                *)
(***************************************************************************)
\* the real dates of a frame
RealDates(df) == {DateOf(df.rows[i]) : i \in 1..Len(df.rows)} \ {NaT}

\* the real dates of a frame, in ascending order
AscendingDates(df) ==
    LET keys == RealDates(df)
    IN  [i \in 1..Cardinality(keys) |->
            CHOOSE k \in keys : Cardinality({x \in keys : DateLT(x, k)}) = i - 1]

\* the groups of groupby("date", dropna=False): NaT is a group, the last one
DateKeysWithNull(df) ==
    IF \E i \in 1..Len(df.rows) : DateOf(df.rows[i]) = NaT
    THEN Append(AscendingDates(df), NaT)
    ELSE AscendingDates(df)

\* the groups of groupby("date"): the real dates, in key order
DateKeys(df) == AscendingDates(df)

\* calculate_daily_metrics(df)
calculate_daily_metrics(df) ==
    IF IsEmpty(df) \/ "date" \notin df.cols THEN EmptyFrame
    ELSE IF sum_cols \cap df.cols = {} THEN EmptyFrame
    ELSE
        LET keys == DateKeys(df)
            cols == {"date"} \cup (sum_cols \cap df.cols)
            row(date) ==
                LET grp == SelectSeq(df.rows, LAMBDA r : DateOf(r) = date)
                IN  [date |-> date,
                     recharge_count |-> SumRows(grp, "recharge_count"),
                     total_calls |-> SumRows(grp, "total_calls"),
                     answered_calls |-> SumRows(grp, "answered_calls"),
                     not_connected |-> SumRows(grp, "not_connected"),
                     people_recalled |-> SumRows(grp, "people_recalled"),
                     friend_added |-> SumRows(grp, "friend_added")]
        IN  [cols |-> cols, rows |-> [k \in 1..Len(keys) |-> Restrict(row(keys[k]), cols)]]

(***************************************************************************)
(* FTD metrics: calculate_ftd_kpis, calculate_ftd_agent_metrics,           *)
(* calculate_ftd_daily_metrics                                             *)
(***************************************************************************)
\* the names utils.data_processor binds at module level
data_processor_names ==
    {"pd", "np", "datetime", "COLUMN_POSITIONS", "COLUMN_POSITIONS_2026",
     "FTD_COLUMN_POSITIONS", "standardize_data", "standardize_ftd_data",
     "filter_by_date_range", "filter_by_team", "filter_by_agent", "get_unique_agents",
     "get_unique_dates", "prepare_export_data"}

\* from utils.data_processor import name: ImportError for a name not bound
ImportRaises(name) == name \notin data_processor_names

\* the three operations whose first statement is
\* from utils.data_processor import FTD_TEAM_LEADER
ftd_operations ==
    {"calculate_ftd_kpis", "calculate_ftd_agent_metrics", "calculate_ftd_daily_metrics"}

(***************************************************************************)
(* Grouped metrics: inputs and calls                                       *)
(***************************************************************************)
NameAgent3 == <<"C", "Y">>  \* "CY"

\* 7 and 8 days before 6 January 2026
DayWindowEdge == [y |-> 2025, m |-> 12, d |-> 30]
DayBeforeWindow == [y |-> 2025, m |-> 12, d |-> 29]

MkAgg(name, team, leader, date, total, answered, recalled) ==
    [date |-> date, agent_name |-> name, recharge_count |-> answered,
     total_calls |-> total, not_connected |-> total - answered,
     answered_calls |-> answered, people_recalled |-> recalled, friend_added |-> 0,
     _year |-> IF date = NaT THEN 2026 ELSE date.y, is_present |-> TRUE,
     _team |-> team, _team_leader |-> leader]

\* records of three agents and a leader, in three teams (TEAM A and TEAM B
\* with the leaders of both years), on five dates
AggStock ==
    {MkAgg(NameAgent3, "TEAM A", "MIKE", DayBeforeWindow, 2, 1, 1),
     MkAgg(NameAgent, "TEAM A", "ONI", jan6_2026, 2, 2, 0),
     MkAgg(NameAgent2, "TEAM B", "PEARL", DayWindowEdge, 2, 1, 1),
     MkAgg(NameAgent3, "TEAM B", "ONI", jan6_2026, 1, 1, 2),
     MkAgg(NameLeader, "TEAM A", "ONI", NaT, 1, 0, 1),
     MkAgg(NameAgent2, "TEAM C", "PEARL", DayBeforeCutoff, 0, 0, 0)}

\* the most records in a record set of the grouped metrics
MaxAggRecs == 3

AggRowSeqs == UNION {[1..k -> AggStock] : k \in 1..MaxAggRecs}

AggColumnSets ==
    {LoadedCols, LoadedCols \ {"date"}, LoadedCols \ {"agent_name", "_team_leader"}}

AggRecordSets ==
    {EmptyFrame}
    \cup {[cols |-> cs, rows |-> [i \in 1..Len(rs) |-> Restrict(rs[i], cs)]]
          : cs \in AggColumnSets, rs \in AggRowSeqs}

InitAgg ==
    /\ NormIdle
    /\ LoadIdle
    /\ records \in AggRecordSets
    /\ call = NoCall
    /\ kpis = ZeroKpis
    /\ result = EmptyFrame

\* result = calculate_team_metrics(df)
CalculateTeamMetrics ==
    /\ call.op = "none"
    /\ call' = [call EXCEPT !.op = "calculate_team_metrics"]
    /\ result' = calculate_team_metrics(records)
    /\ records' = AfterCall(records)
    /\ UNCHANGED <<nvars, lvars, kpis>>

\* result = calculate_team_comparison(df)
CalculateTeamComparison ==
    /\ call.op = "none"
    /\ \E order \in TeamComparisonOrders(records) :
          IF TeamComparisonRaises(records)
          THEN /\ call' = [call EXCEPT !.op = "calculate_team_comparison", !.raised = TRUE]
               /\ UNCHANGED result
          ELSE /\ call' = [call EXCEPT !.op = "calculate_team_comparison"]
               /\ result' = calculate_team_comparison(records, order)
    /\ records' = AfterCall(records)
    /\ UNCHANGED <<nvars, lvars, kpis>>

\* the metric and top_n arguments of get_top_performers: numeric columns, a
\* column no grouped frame has, and a text column
TopMetrics == {"answered_calls", "connection_rate", "ftd_count", "agent_name"}

MaxTopN == 2

\* result = get_top_performers(df, metric, top_n)
GetTopPerformers ==
    /\ call.op = "none"
    /\ \E metric \in TopMetrics, top_n \in 0..MaxTopN :
          IF TopPerformersRaises(records, metric)
          THEN /\ call' = [call EXCEPT !.op = "get_top_performers", !.metric = metric,
                                       !.top_n = top_n, !.raised = TRUE]
               /\ UNCHANGED result
          ELSE /\ call' = [call EXCEPT !.op = "get_top_performers", !.metric = metric,
                                       !.top_n = top_n]
               /\ result' = get_top_performers(records, metric, top_n)
    /\ records' = AfterCall(records)
    /\ UNCHANGED <<nvars, lvars, kpis>>

\* result = calculate_daily_metrics(df)
CalculateDailyMetrics ==
    /\ call.op = "none"
    /\ call' = [call EXCEPT !.op = "calculate_daily_metrics"]
    /\ result' = calculate_daily_metrics(records)
    /\ records' = AfterCall(records)
    /\ UNCHANGED <<nvars, lvars, kpis>>

\* a call of an FTD operation on df: the import at its head raises before df is
\* looked at
FtdCall(op) ==
    /\ call.op = "none"
    /\ ImportRaises("FTD_TEAM_LEADER")
    /\ call' = [call EXCEPT !.op = op, !.raised = TRUE]
    /\ records' = AfterCall(records)
    /\ UNCHANGED <<nvars, lvars, kpis, result>>

\* calculate_ftd_kpis(df)
CalculateFtdKpis == FtdCall("calculate_ftd_kpis")

\* calculate_ftd_agent_metrics(df)
CalculateFtdAgentMetrics == FtdCall("calculate_ftd_agent_metrics")

\* calculate_ftd_daily_metrics(df)
CalculateFtdDailyMetrics == FtdCall("calculate_ftd_daily_metrics")

NextAgg ==
    \/ CalculateKpis
    \/ CalculateDailyMetrics
    \/ CalculateFtdKpis
    \/ CalculateFtdAgentMetrics
    \/ CalculateFtdDailyMetrics
    \/ CalculateTeamMetrics
    \/ CalculateTeamComparison
    \/ GetTopPerformers

SpecAgg == InitAgg /\ [][NextAgg]_vars

(***************************************************************************)
(* A page's calls over one loaded snapshot: any sequence of filter and     *)
(* metrics operations on the same frame                                    *)
(***************************************************************************)
\* snapshots of one or two records
SnapshotSets ==
    {EmptyFrame}
    \cup {[cols |-> LoadedCols, rows |-> rs]
          : rs \in {<<a>> : a \in AggStock} \cup {<<a, b>> : a \in AggStock, b \in AggStock}}

InitSnapshot ==
    /\ NormIdle
    /\ LoadIdle
    /\ records \in SnapshotSets
    /\ call = NoCall
    /\ kpis = ZeroKpis
    /\ result = EmptyFrame

\* the page goes on to its next call; what the earlier calls returned stays
NextCall ==
    /\ call.op # "none"
    /\ call' = NoCall
    /\ UNCHANGED <<nvars, lvars, records, kpis, result>>

NextSnapshot ==
    \/ FilterByDateRange
    \/ FilterByTeam
    \/ FilterByAgent
    \/ CalculateKpis
    \/ CalculateTeamMetrics
    \/ CalculateTeamComparison
    \/ CalculateDailyMetrics
    \/ GetTopPerformers
    \/ CalculateFtdKpis
    \/ CalculateFtdAgentMetrics
    \/ CalculateFtdDailyMetrics
    \/ NextCall

SpecSnapshot == InitSnapshot /\ [][NextSnapshot]_vars

(***************************************************************************)
(* Sheet loader: load_sheet_data, load_all_sheets_data                     *)
(***************************************************************************)
\* the 2025 sheets, in configuration order
SHEET_CONFIG ==
    << [sheet |-> "TL MIKE TEAM A", team |-> "TEAM A", tl |-> "MIKE"],
       [sheet |-> "TL PEARL TEAM B", team |-> "TEAM B", tl |-> "PEARL"],
       [sheet |-> "TL DEXTER TEAM C", team |-> "TEAM C", tl |-> "DEXTER"],
       [sheet |-> "TL BOB TEAM D", team |-> "TEAM D", tl |-> "BOB"],
       [sheet |-> "TL ONI TEAM E", team |-> "TEAM E", tl |-> "ONI"],
       [sheet |-> "TL TRINA TEAM F", team |-> "TEAM F", tl |-> "TRINA"],
       [sheet |-> "TL MIRRA TEAM G", team |-> "TEAM G", tl |-> "MIRRA"],
       [sheet |-> "TL JAYE TEAM H", team |-> "TEAM H", tl |-> "JAYE"],
       [sheet |-> "TL WINSON TEAM I", team |-> "TEAM I", tl |-> "WINSON"],
       [sheet |-> "TL ANDRE TEAM J", team |-> "TEAM J", tl |-> "ANDRE"],
       [sheet |-> "TL NICOLE TEAM K", team |-> "TEAM K", tl |-> "NICOLE"],
       [sheet |-> "TL RUBY TEAM L", team |-> "TEAM L", tl |-> "RUBY"] >>

\* the 2026 sheets, in configuration order
SHEET_CONFIG_2026 ==
    << [sheet |-> "TEAM A TL ONI", team |-> "TEAM A", tl |-> "ONI"],
       [sheet |-> "TEAM B TL ONI", team |-> "TEAM B", tl |-> "ONI"],
       [sheet |-> "TEAM C TL PEARL", team |-> "TEAM C", tl |-> "PEARL"],
       [sheet |-> "TEAM D TL PEARL", team |-> "TEAM D", tl |-> "PEARL"],
       [sheet |-> "TEAM E MIRRA", team |-> "TEAM E", tl |-> "MIRRA"],
       [sheet |-> "TEAM F MIRRA", team |-> "TEAM F", tl |-> "MIRRA"],
       [sheet |-> "TEAM G TL JAYE", team |-> "TEAM G", tl |-> "JAYE"],
       [sheet |-> "TEAM H TL JAYE", team |-> "TEAM H", tl |-> "JAYE"],
       [sheet |-> "TEAM I TL BOB", team |-> "TEAM I", tl |-> "BOB"],
       [sheet |-> "TEAM J TL WINSON", team |-> "TEAM J", tl |-> "WINSON"],
       [sheet |-> "TEAM K TEAM RUBY", team |-> "TEAM K", tl |-> "RUBY"] >>

\* the FTD sheet (2026 only)
FTD_SHEET_CONFIG ==
    << [sheet |-> "FTD TEAM ANDREI", team |-> "FTD TEAM", tl |-> "ANDREI"] >>

TEST_MODE == FALSE
TEST_SHEET == "TL MIKE TEAM A"

max_retries == 3

\* the sheets of each year that the model loads: the first SheetsPerYear of
\* the year's configuration
SheetsPerYear == 2

ConfigOf(target_year) == IF target_year = 2026 THEN SHEET_CONFIG_2026 ELSE SHEET_CONFIG

\* list(SHEET_CONFIG.keys()), as (sheet_name, year) calls
SheetCalls(target_year) ==
    LET config == ConfigOf(target_year)
        n == IF SheetsPerYear < Len(config) THEN SheetsPerYear ELSE Len(config)
    IN  [i \in 1..n |-> [sheet_name |-> config[i].sheet, year |-> target_year]]

InList(x, list) == \E i \in 1..Len(list) : list[i] = x

\* the load_sheet_data calls load_all_sheets_data makes, in order
WorkList(years_arg) ==
    IF TEST_MODE THEN <<[sheet_name |-> TEST_SHEET, year |-> 2025]>>
    ELSE (IF InList(2025, years_arg) THEN SheetCalls(2025) ELSE <<>>)
         \o (IF InList(2026, years_arg) THEN SheetCalls(2026) ELSE <<>>)

\* what one attempt to fetch a sheet meets: no client, a missing worksheet, a
\* rate-limit (429) or another API error, or the sheet's raw values
SheetRaws ==
    {<<>>,
     <<HeaderRow>>,
     <<HeaderRow, MkRow(DateShort, AgentAna, NumFive, FullWidth)>>,
     <<HeaderRow, MkRow(DateShort, AgentAna, NumFive, FullWidth),
                  MkRow(DateShort, AgentAna, NumFive, FullWidth)>>,
     <<HeaderRow, MkRow(DateShort, AgentBlank, NumFive, FullWidth)>>,
     <<HeaderRow, MkRow(DateIsoLeap, AgentAna, NumFive, FullWidth)>>}

FetchOutcomes ==
    {[kind |-> k, rows |-> <<>>] : k \in {"no_client", "not_found", "api_429", "api_error"}}
    \cup {[kind |-> "rows", rows |-> r] : r \in SheetRaws}

\* the team tags without the name of the sheet
TagFrameNoSheet(df, entry) ==
    [cols |-> df.cols \cup {"_team", "_team_leader"},
     rows |-> [i \in 1..Len(df.rows) |->
                 [_team |-> entry.team, _team_leader |-> entry.tl] @@ df.rows[i]]]

\* df["_team"] = ...; df["_team_leader"] = ...; df["_sheet_name"] = sheet_name
TagFrame(df, entry) ==
    [cols |-> df.cols \cup {"_team", "_team_leader", "_sheet_name"},
     rows |-> [i \in 1..Len(df.rows) |->
                 [_team |-> entry.team, _team_leader |-> entry.tl,
                  _sheet_name |-> entry.sheet] @@ df.rows[i]]]

\* the frame load_sheet_data(sheet_name, year) returns on an attempt that is
\* not retried
load_sheet_data(sheet_name, target_year, outcome, generic) ==
    LET sheet_config == ConfigOf(target_year)
        known == {i \in 1..Len(sheet_config) : sheet_config[i].sheet = sheet_name}
        Tagged(df) ==
            IF known # {} THEN TagFrame(df, sheet_config[CHOOSE i \in known : TRUE])
            ELSE df
        Standardized(out) ==
            IF out.raised THEN EmptyFrame
            ELSE IF IsEmpty(out.df) THEN EmptyFrame
            ELSE Tagged(out.df)
    IN  IF outcome.kind # "rows" THEN EmptyFrame
        ELSE IF Len(outcome.rows) < 2 THEN EmptyFrame
        ELSE Standardized(standardize_data(outcome.rows, target_year, generic))

\* the frame load_ftd_data(year) returns on an attempt that is not retried
load_ftd_data(target_year, outcome, generic) ==
    LET Standardized(out) ==
            IF out.raised THEN EmptyFrame
            ELSE IF IsEmpty(out.df) THEN EmptyFrame
            ELSE TagFrame(out.df, FTD_SHEET_CONFIG[1])
    IN  IF outcome.kind # "rows" THEN EmptyFrame
        ELSE IF Len(outcome.rows) < 2 THEN EmptyFrame
        ELSE Standardized(standardize_ftd_data(outcome.rows, target_year, generic))

\* a wait that grows by 10 s with every retry
WaitLinear(count) == (count + 1) * 10

\* wait_time = (2 ** retry_count) * 10
wait_time(count) == (2 ^ count) * 10

\* a rate-limit error is retried while retry_count < max_retries
Retried(outcome, count) == outcome.kind = "api_429" /\ count < max_retries

\* what the fetches of the running call met so far; a call that starts
\* (retry_count = 0) starts its own record
MetSoFar == IF retry_count = 0 THEN <<>> ELSE met
WaitsSoFar == IF retry_count = 0 THEN <<>> ELSE waits

\* pd.concat with duplicate agent/date records removed
RECURSIVE ConcatDropDuplicates(_)
ConcatDropDuplicates(dfs) ==
    IF dfs = <<>> THEN EmptyFrame
    ELSE
        LET init == ConcatDropDuplicates(SubSeq(dfs, 1, Len(dfs) - 1))
            last == dfs[Len(dfs)]
            fresh == SelectSeq(last.rows,
                        LAMBDA r : \A i \in 1..Len(init.rows) :
                                      init.rows[i].agent_name # r.agent_name
                                      \/ init.rows[i].date # r.date)
        IN  [cols |-> init.cols \cup last.cols, rows |-> init.rows \o fresh]

\* pd.concat(all_data, ignore_index=True): the union of the columns, the rows
\* of each frame in list order
RECURSIVE Concat(_)
Concat(dfs) ==
    IF dfs = <<>> THEN EmptyFrame
    ELSE
        LET init == Concat(SubSeq(dfs, 1, Len(dfs) - 1))
            last == dfs[Len(dfs)]
        IN  [cols |-> init.cols \cup last.cols, rows |-> init.rows \o last.rows]

YearsArgs == {<<2025>>, <<2026>>, <<2025, 2026>>}

\* a run of load_all_sheets_data(years), or of load_ftd_data(year) with the
\* year held in years
InitLoad ==
    /\ NormIdle
    /\ MetricsIdle
    /\ \/ lpc = "load" /\ years \in YearsArgs
       \/ lpc = "ftd" /\ years \in {<<y>> : y \in Years}
    /\ sheet_i = 1
    /\ retry_count = 0
    /\ returned = <<>>
    /\ all_data = <<>>
    /\ combined_df = EmptyFrame
    /\ met = <<>>
    /\ waits = <<>>
    /\ CacheIdle

\* a loop that keeps every frame, the empty ones too
KeptAlways(all, df) == Append(all, df)

\* if not df.empty: all_data.append(df)
Kept(all, df) == IF ~IsEmpty(df) THEN Append(all, df) ELSE all

\* load_sheet_data meets a rate limit, sleeps and calls itself with
\* retry_count + 1
LoadSheetRetry ==
    /\ lpc = "load"
    /\ sheet_i <= Len(WorkList(years))
    /\ \E outcome \in FetchOutcomes :
          /\ Retried(outcome, retry_count)
          /\ met' = Append(MetSoFar, outcome.kind)
    /\ waits' = Append(WaitsSoFar, wait_time(retry_count))
    /\ retry_count' = retry_count + 1
    /\ UNCHANGED <<nvars, mvars, years, sheet_i, returned, all_data, combined_df, lpc, cvars>>

\* load_sheet_data returns, and load_all_sheets_data keeps a non-empty frame
LoadSheetReturn ==
    /\ lpc = "load"
    /\ sheet_i <= Len(WorkList(years))
    /\ \E outcome \in FetchOutcomes, g \in GenericOutcomes :
          /\ ~Retried(outcome, retry_count)
          /\ met' = Append(MetSoFar, outcome.kind)
          /\ \E df \in {load_sheet_data(WorkList(years)[sheet_i].sheet_name,
                                         WorkList(years)[sheet_i].year, outcome,
                                         [i \in 1..MaxRows |-> g])} :
                /\ returned' = Append(returned, df)
                /\ all_data' = Kept(all_data, df)
    /\ waits' = WaitsSoFar
    /\ sheet_i' = sheet_i + 1
    /\ retry_count' = 0
    /\ UNCHANGED <<nvars, mvars, years, combined_df, lpc, cvars>>

\* after the loops: the empty frame, or the concatenation of all_data
CombineSheets ==
    /\ lpc = "load"
    /\ sheet_i > Len(WorkList(years))
    /\ combined_df' = IF all_data = <<>> THEN EmptyFrame ELSE Concat(all_data)
    /\ lpc' = "done"
    /\ UNCHANGED <<nvars, mvars, years, sheet_i, retry_count, returned, all_data, met, waits, cvars>>

\* load_ftd_data meets a rate limit, sleeps and calls itself with
\* retry_count + 1
LoadFtdRetry ==
    /\ lpc = "ftd"
    /\ \E outcome \in FetchOutcomes :
          /\ Retried(outcome, retry_count)
          /\ met' = Append(MetSoFar, outcome.kind)
    /\ waits' = Append(WaitsSoFar, wait_time(retry_count))
    /\ retry_count' = retry_count + 1
    /\ UNCHANGED <<nvars, mvars, years, sheet_i, returned, all_data, combined_df, lpc, cvars>>

\* load_ftd_data returns
LoadFtdReturn ==
    /\ lpc = "ftd"
    /\ \E outcome \in FetchOutcomes, g \in GenericOutcomes :
          /\ ~Retried(outcome, retry_count)
          /\ met' = Append(MetSoFar, outcome.kind)
          /\ \E df \in {load_ftd_data(years[1], outcome, [i \in 1..MaxRows |-> g])} :
                returned' = Append(returned, df)
    /\ waits' = WaitsSoFar
    /\ retry_count' = 0
    /\ lpc' = "ftd_done"
    /\ UNCHANGED <<nvars, mvars, years, sheet_i, all_data, combined_df, cvars>>

NextLoad ==
    \/ LoadSheetRetry
    \/ LoadSheetReturn
    \/ CombineSheets
    \/ LoadFtdRetry
    \/ LoadFtdReturn

SpecLoad == InitLoad /\ [][NextLoad]_vars

(***************************************************************************)
(* The pipeline of a page: load, filter any number of times, calculate_kpis *)
(***************************************************************************)
nov2_2026 == [y |-> 2026, m |-> 11, d |-> 2]

\* the ends of the date range picked on a page
PageDates == {jan6_2026, nov2_2026}

PageTeams == {<<"TEAM A">>, <<"FTD TEAM">>}

PageAgents == {<<AgentAna>>, <<NameAgent2>>}

\* df = load_all_sheets_data(years=...) or df = load_ftd_data(year=...): the
\* page takes what the loader returned
UseLoaded ==
    /\ lpc \in {"done", "ftd_done"}
    /\ records' = IF lpc = "done" THEN combined_df ELSE returned[1]
    /\ lpc' = IF lpc = "done" THEN "main" ELSE "ftd_page"
    /\ UNCHANGED <<nvars, call, kpis, result, years, sheet_i, retry_count, returned, all_data,
                   combined_df, met, waits, cvars>>

\* df = filter_by_team(df, selected_teams)
PageFilterByTeam ==
    /\ lpc \in {"main", "ftd_page"}
    /\ call.op = "none"
    /\ \E teams \in PageTeams : records' = filter_by_team(records, teams)
    /\ UNCHANGED <<nvars, lvars, call, kpis, result>>

\* df = filter_by_agent(df, selected_agents)
PageFilterByAgent ==
    /\ lpc \in {"main", "ftd_page"}
    /\ call.op = "none"
    /\ \E agents \in PageAgents : records' = filter_by_agent(records, agents)
    /\ UNCHANGED <<nvars, lvars, call, kpis, result>>

\* df = filter_by_date_range(df, date_range[0], date_range[1])
PageFilterByDateRange ==
    /\ lpc \in {"main", "ftd_page"}
    /\ call.op = "none"
    /\ \E s \in PageDates, e \in PageDates : records' = filter_by_date_range(records, s, e)
    /\ UNCHANGED <<nvars, lvars, call, kpis, result>>

\* kpis = calculate_kpis(df) on the page's frame
PageCalculateKpis ==
    /\ lpc \in {"main", "ftd_page"}
    /\ CalculateKpis

NextPipeline ==
    \/ LoadSheetRetry
    \/ LoadSheetReturn
    \/ CombineSheets
    \/ LoadFtdRetry
    \/ LoadFtdReturn
    \/ UseLoaded
    \/ PageFilterByTeam
    \/ PageFilterByAgent
    \/ PageFilterByDateRange
    \/ PageCalculateKpis

SpecPipeline == InitLoad /\ [][NextPipeline]_vars

(***************************************************************************)
(* The main page: calculate_kpis(df), then the Teams Overview table, each  *)
(* with its own leader test                                                *)
(***************************************************************************)
\* the configured leader names as text
TlText ==
    [MIKE |-> <<"M", "I", "K", "E">>, PEARL |-> <<"P", "E", "A", "R", "L">>,
     DEXTER |-> <<"D", "E", "X", "T", "E", "R">>, BOB |-> <<"B", "O", "B">>,
     ONI |-> <<"O", "N", "I">>, TRINA |-> <<"T", "R", "I", "N", "A">>,
     MIRRA |-> <<"M", "I", "R", "R", "A">>, JAYE |-> <<"J", "A", "Y", "E">>,
     WINSON |-> <<"W", "I", "N", "S", "O", "N">>, ANDRE |-> <<"A", "N", "D", "R", "E">>,
     NICOLE |-> <<"N", "I", "C", "O", "L", "E">>, RUBY |-> <<"R", "U", "B", "Y">>]

\* all_tl_names: config["tl"].upper() of every entry of both configurations
all_tl_names ==
    {Upper(TlText[SHEET_CONFIG[i].tl]) : i \in 1..Len(SHEET_CONFIG)}
    \cup {Upper(TlText[SHEET_CONFIG_2026[i].tl]) : i \in 1..Len(SHEET_CONFIG_2026)}

\* any(tl in str(x).upper() for tl in all_tl_names)
overview_is_tl(name) == \E tl \in all_tl_names : Contains(Upper(name), tl)

\* sorted(df["_team"].unique())
OverviewTeams(df) == TeamKeys(df)

\* team_data: for each team the recalled figures of the table row
team_summary(df) ==
    LET Row(t) ==
            LET team_df == TeamRows(df, t)
                split == "people_recalled" \in df.cols /\ "agent_name" \in df.cols
            IN  [team |-> t,
                 vip_recalled |->
                    IF split
                    THEN SumRows(SelectSeq(team_df, LAMBDA r : overview_is_tl(NameOf(r))),
                                 "people_recalled")
                    ELSE 0,
                 people_recalled |->
                    IF split
                    THEN SumRows(SelectSeq(team_df, LAMBDA r : ~overview_is_tl(NameOf(r))),
                                 "people_recalled")
                    ELSE IF "people_recalled" \in df.cols
                         THEN SumRows(team_df, "people_recalled") ELSE 0]
        teams == OverviewTeams(df)
    IN  [cols |-> {"team", "vip_recalled", "people_recalled"},
         rows |-> [i \in 1..Len(teams) |-> Row(teams[i])]]

NameOniLeader == <<"o", "n", "i", " ", "-", " ", "t", "l", " ", "a">>  \* "oni - tl a"
NameAtlas == <<"A", "T", "L", "A", "S", " ", "-", " ", "T", "L", " ", "A">>  \* "ATLAS - TL A"
NameBobby == <<"B", "O", "B", "B", "Y">>  \* "BOBBY"
NameLeaderBare == <<"M", "I", " ", "-", " ", "T", "L">>  \* "MI - TL"
NameAssistantBare == <<"J", "O", " ", "A", "T", "L", " ", "A">>  \* "JO ATL A"

\* the records of the page: names with and without the markers, in two teams
OverviewStock ==
    {[agent_name |-> NameAgent, people_recalled |-> 1, _team |-> "TEAM A"],
     [agent_name |-> NameOniLeader, people_recalled |-> 2, _team |-> "TEAM A"],
     [agent_name |-> NameLeader, people_recalled |-> 3, _team |-> "TEAM B"],
     [agent_name |-> NameAssistant, people_recalled |-> 4, _team |-> "TEAM A"],
     [agent_name |-> NameAtlas, people_recalled |-> 5, _team |-> "TEAM B"],
     [agent_name |-> NameBobby, people_recalled |-> 6, _team |-> "TEAM B"],
     [agent_name |-> NameLeaderBare, people_recalled |-> 7, _team |-> "TEAM A"],
     [agent_name |-> NameAssistantBare, people_recalled |-> 8, _team |-> "TEAM B"],
     [people_recalled |-> 9, _team |-> "TEAM A"]}

OverviewCols == {"agent_name", "people_recalled", "_team"}

OverviewColumnSets == {OverviewCols, OverviewCols \ {"agent_name"}, OverviewCols \ {"_team"}}

\* the frames of one or two records the page is given; an empty frame ends
\* main before the KPIs (app.py, if df.empty: return)
OverviewSets ==
    {[cols |-> cs, rows |-> [i \in 1..Len(rs) |-> Restrict(rs[i], cs)]]
       : cs \in OverviewColumnSets,
         rs \in {<<r>> : r \in OverviewStock}
                \cup {<<r, t>> : r \in OverviewStock, t \in OverviewStock}}

InitOverview ==
    /\ NormIdle
    /\ records \in OverviewSets
    /\ call = NoCall
    /\ kpis = ZeroKpis
    /\ result = EmptyFrame
    /\ LoadIdle

\* the Teams Overview of main, after kpis = calculate_kpis(df)
TeamsOverview ==
    /\ call.op = "calculate_kpis"
    /\ call' = [call EXCEPT !.op = "teams_overview"]
    /\ result' = IF "_team" \in records.cols THEN team_summary(records) ELSE result
    /\ UNCHANGED <<nvars, lvars, records, kpis>>

NextOverview == CalculateKpis \/ TeamsOverview

SpecOverview == InitOverview /\ [][NextOverview]_vars

(***************************************************************************)
(* The cache in front of the loaders: st.cache_data(ttl=300) on            *)
(* load_sheet_data, load_all_sheets_data and load_ftd_data; refresh_data   *)
(***************************************************************************)
\* @st.cache_data(ttl=300): seconds an entry is served
ttl == 300

\* the clock moves in steps of half the TTL
TickSeconds == ttl \div 2

\* the cache key of a call: the function and the arguments it was given
SheetKey(sheet_name, target_year, count) ==
    [fn |-> "load_sheet_data", sheet |-> sheet_name, years |-> <<target_year>>, retry |-> count]

FtdKey(target_year, count) ==
    [fn |-> "load_ftd_data", sheet |-> "", years |-> <<target_year>>, retry |-> count]

AllKey(years_arg) ==
    [fn |-> "load_all_sheets_data", sheet |-> "", years |-> years_arg, retry |-> 0]

\* the entries of a key that are served: stored less than ttl ago
Cached(c, key) == {e \in c : e.key = key /\ e.age < ttl}

\* a cache that keeps no empty dataset
StoreUnlessEmpty(c, key, value, pre) ==
    IF value.rows = <<>> THEN {e \in c : e.key # key}
    ELSE {e \in c : e.key # key} \cup {[key |-> key, value |-> value, age |-> 0, pre |-> pre]}

\* the cache after the wrapper stored what the function body returned
Store(c, key, value, pre) ==
    {e \in c : e.key # key} \cup {[key |-> key, value |-> value, age |-> 0, pre |-> pre]}

\* refresh_ftd_data(): load_ftd_data.clear() alone
refresh_ftd_data(c) == {e \in c : e.key.fn # "load_ftd_data"}

\* refresh_data(): load_sheet_data.clear(), load_all_sheets_data.clear(),
\* load_ftd_data.clear() and st.cache_data.clear()
refresh_data(c) == {}

\* what the fetches of one call meet: a rate limit n429 times, then final
CacheOutcomes ==
    {[kind |-> "api_429", rows |-> <<>>],
     [kind |-> "not_found", rows |-> <<>>],
     [kind |-> "rows", rows |-> <<HeaderRow, MkRow(DateShort, AgentAna, NumFive, FullWidth)>>]}

\* no rate limit (and then rows, a failure, or a rate limit at every attempt),
\* or one rate limit and then rows
Paths ==
    {[n429 |-> 0, final |-> o] : o \in CacheOutcomes}
    \cup {[n429 |-> 1, final |-> o] : o \in {x \in CacheOutcomes : x.kind = "rows"}}

\* what the fetch of the call with retry_count = count meets on a path
OutcomeAt(path, count) ==
    IF count < path.n429 THEN [kind |-> "api_429", rows |-> <<>>] ELSE path.final

\* the record of one call of a cached function
CallRecord(key, hit, value, pre) == [key |-> key, hit |-> hit, value |-> value, pre |-> pre]

\* a call of the decorated load_sheet_data / load_ftd_data with retry_count =
\* count: the entry when one is served; else the body runs, which either
\* retries through the decorated function or returns, and the wrapper stores
\* what it returned
RECURSIVE CachedLoad(_, _, _, _, _, _)
CachedLoad(c, fn, sheet_name, target_year, count, path) ==
    LET key == IF fn = "load_sheet_data" THEN SheetKey(sheet_name, target_year, count)
               ELSE FtdKey(target_year, count)
        hits == Cached(c, key)
        Served(e) ==
            [value |-> e.value, pre |-> e.pre, cache |-> c,
             calls |-> {CallRecord(key, TRUE, e.value, e.pre)}]
        Computed(inner) ==
            [value |-> inner.value, pre |-> inner.pre,
             cache |-> Store(inner.cache, key, inner.value, inner.pre),
             calls |-> inner.calls \cup {CallRecord(key, FALSE, inner.value, inner.pre)}]
        Body(value) == [value |-> value, pre |-> FALSE, cache |-> c, calls |-> {}]
    IN  IF hits # {} THEN Served(CHOOSE e \in hits : TRUE)
        ELSE IF Retried(OutcomeAt(path, count), count)
        THEN Computed(CachedLoad(c, fn, sheet_name, target_year, count + 1, path))
        ELSE IF fn = "load_sheet_data"
        THEN Computed(Body(load_sheet_data(sheet_name, target_year, OutcomeAt(path, count),
                                           [i \in 1..MaxRows |-> NaT])))
        ELSE Computed(Body(load_ftd_data(target_year, OutcomeAt(path, count),
                                         [i \in 1..MaxRows |-> NaT])))

\* the sheet loop of load_all_sheets_data from position i on
RECURSIVE LoadSheets(_, _, _, _)
LoadSheets(c, work, paths, i) ==
    LET Rest(r, rest) ==
            [cache |-> rest.cache,
             frames |-> (IF IsEmpty(r.value) THEN <<>> ELSE <<r.value>>) \o rest.frames,
             pre |-> r.pre \/ rest.pre,
             calls |-> r.calls \cup rest.calls]
        Then(r) == Rest(r, LoadSheets(r.cache, work, paths, i + 1))
    IN  IF i > Len(work) THEN [cache |-> c, frames |-> <<>>, pre |-> FALSE, calls |-> {}]
        ELSE Then(CachedLoad(c, "load_sheet_data", work[i].sheet_name, work[i].year, 0,
                             paths[i]))

\* a call of the decorated load_all_sheets_data(years)
CachedLoadAll(c, years_arg, paths) ==
    LET key == AllKey(years_arg)
        hits == Cached(c, key)
        Served(e) ==
            [value |-> e.value, pre |-> e.pre, cache |-> c,
             calls |-> {CallRecord(key, TRUE, e.value, e.pre)}]
        Built(loop, value) ==
            [value |-> value, pre |-> loop.pre,
             cache |-> Store(loop.cache, key, value, loop.pre),
             calls |-> loop.calls \cup {CallRecord(key, FALSE, value, loop.pre)}]
        Combined(loop) ==
            Built(loop, IF loop.frames = <<>> THEN EmptyFrame ELSE Concat(loop.frames))
    IN  IF hits # {} THEN Served(CHOOSE e \in hits : TRUE)
        ELSE Combined(LoadSheets(c, WorkList(years_arg), paths, 1))

\* history after a load: the results the function bodies returned
Remember(h, calls) ==
    LET ran == {x \in calls : ~x.hit}
    IN  {e \in h : \A x \in ran : x.key # e.key}
        \cup {[key |-> x.key, value |-> x.value, age |-> 0] : x \in ran}

\* what a load leaves behind
AfterLoad(r) ==
    /\ cache' = r.cache
    /\ served' = r.calls
    /\ history' = Remember(history, r.calls)
    /\ refreshed' = IF refreshed = "yes" THEN "loaded" ELSE "no"

CacheYearsArgs == {<<2026>>}

\* a page calls load_all_sheets_data(years=...)
LoadAllSheetsCached ==
    /\ \E years_arg \in CacheYearsArgs :
          \E paths \in [1..Len(WorkList(years_arg)) -> Paths] :
             AfterLoad(CachedLoadAll(cache, years_arg, paths))
    /\ UNCHANGED <<nvars, mvars, years, sheet_i, retry_count, returned, all_data, combined_df,
                   lpc, met, waits>>

\* a call of load_sheet_data(sheet_name, year=...) on its own
LoadSheetCached ==
    /\ \E years_arg \in CacheYearsArgs, path \in Paths :
          AfterLoad(CachedLoad(cache, "load_sheet_data", WorkList(years_arg)[1].sheet_name,
                               WorkList(years_arg)[1].year, 0, path))
    /\ UNCHANGED <<nvars, mvars, years, sheet_i, retry_count, returned, all_data, combined_df,
                   lpc, met, waits>>

\* the FTD page calls load_ftd_data(year=...)
LoadFtdCached ==
    /\ \E path \in Paths : AfterLoad(CachedLoad(cache, "load_ftd_data", "", 2026, 0, path))
    /\ UNCHANGED <<nvars, mvars, years, sheet_i, retry_count, returned, all_data, combined_df,
                   lpc, met, waits>>

\* the Refresh button: refresh_data().  An entry that outlives it was stored
\* before a refresh
RefreshData ==
    /\ cache' = {[e EXCEPT !.pre = TRUE] : e \in refresh_data(cache)}
    /\ served' = {}
    /\ history' = {}
    /\ refreshed' = "yes"
    /\ UNCHANGED <<nvars, mvars, years, sheet_i, retry_count, returned, all_data, combined_df,
                   lpc, met, waits>>

\* time passes: every entry grows older, and the cache drops what it would no
\* longer serve
Tick ==
    /\ cache' = {[e EXCEPT !.age = e.age + TickSeconds] : e \in {x \in cache :
                    x.age + TickSeconds < ttl}}
    /\ history' = {[e EXCEPT !.age = e.age + TickSeconds] : e \in {x \in history :
                      x.age + TickSeconds < ttl}}
    /\ served' = {}
    /\ refreshed' = IF refreshed = "yes" THEN "yes" ELSE "no"
    /\ UNCHANGED <<nvars, mvars, years, sheet_i, retry_count, returned, all_data, combined_df,
                   lpc, met, waits>>

InitCache == NormIdle /\ MetricsIdle /\ LoadIdle

NextCache ==
    \/ LoadAllSheetsCached
    \/ LoadSheetCached
    \/ LoadFtdCached
    \/ RefreshData
    \/ Tick

SpecCache == InitCache /\ [][NextCache]_vars

(***************************************************************************)
(* Properties of the normalizer (SpecNorm)                                 *)
(***************************************************************************)
Called == std.op # "none"

\* the text of column col (zero-indexed) of a raw row, '' when the row is shorter
CellAt(row, col) == IF col < Len(row) THEN row[col + 1] ELSE <<>>

\* the data rows of raw_values whose agent-name cell, trimmed, is a name
NamedRows ==
    {i \in 2..Len(raw_values) :
        LET name == Strip(CellAt(raw_values[i], 1))
        IN  name # <<>> /\ name # <<"n", "a", "n">>}

\* C1: standardize_data and standardize_ftd_data return a dataset and never
\* raise, for every raw row set (a 29 February text with a non-leap target year
\* and the numeric text 'inf' included).
C1_NeverRaises == ~std.raised

\* C2: a data row whose agent-name cell is empty, whitespace-only or 'nan'
\* after trimming yields no output record (so there are at most as many output
\* records as rows with a name), and every output record has a non-empty
\* agent_name and is_present = TRUE.
C2_NamelessRowsDropped ==
    (Called /\ ~std.raised) =>
        /\ Len(std.df.rows) <= Cardinality(NamedRows)
        /\ \A k \in 1..Len(std.df.rows) :
              std.df.rows[k].agent_name # <<>> /\ std.df.rows[k].is_present

\* C3: every output record with a non-null date has date.year equal to the
\* target year and to its _year tag, whatever year the source text named.
C3_DateInTargetYear ==
    \A k \in 1..Len(std.df.rows) :
        LET r == std.df.rows[k]
        IN  r.date # NaT => (r.date.y = year /\ r.date.y = r._year)

\* C3 witness: a row whose date text names 2024 was normalized to 5 March of
\* the target year.
C3_Witness ==
    /\ Called
    /\ Len(raw_values) >= 2
    /\ CellAt(raw_values[2], 0) = DateIso
    /\ Len(std.df.rows) >= 1
    /\ std.df.rows[1].date = [y |-> year, m |-> 3, d |-> 5]

\* the number a text of one or two digits spells, 0 for any other text
SmallNumber(s) == IF IsDigits(s) /\ Len(s) <= 2 THEN DigitsVal(s) ELSE 0

\* the date the claim gives a date text in the target year: month and day of a
\* two-part text, the first two parts, month first, of a three-part text with
\* a four-digit year whose first two parts are both months; NaT for a text the
\* claim does not speak of
DateByRule(cell, target_year) ==
    LET parts == Split(Strip(cell), "/")
        first == SmallNumber(parts[1])
        second == SmallNumber(parts[2])
    IN  IF Len(parts) = 2 /\ ValidDate(target_year, first, second)
        THEN [y |-> target_year, m |-> first, d |-> second]
        ELSE IF /\ Len(parts) = 3
                /\ first \in 1..12
                /\ second \in 1..12
                /\ IsDigits(parts[3]) /\ Len(parts[3]) = 4
                /\ ValidDate(target_year, first, second)
        THEN [y |-> target_year, m |-> first, d |-> second]
        ELSE NaT

\* C28: the month/day split comes before the generic parser, and month/day/year
\* before day/month/year. The record of a one-row input whose date text is
\* 'm/d' with a day that exists in the target year has the date (target year,
\* m, d), whatever the generic parser would make of the text, and the record of
\* a text 'a/b/yyyy' with a and b both at most 12 has the date (target year, a,
\* b).
C28_MonthFirstThenShort ==
    (Called /\ ~std.raised /\ Len(raw_values) = 2 /\ Len(std.df.rows) = 1
       /\ DateByRule(CellAt(raw_values[2], 0), year) # NaT)
        => std.df.rows[1].date = DateByRule(CellAt(raw_values[2], 0), year)

\* C28 witness: '11/02' normalized with target year 2026
C28_Witness ==
    /\ Called
    /\ year = 2026
    /\ Len(raw_values) = 2
    /\ CellAt(raw_values[2], 0) = DateShort
    /\ Len(std.df.rows) = 1
    /\ std.df.rows[1].date = [y |-> 2026, m |-> 11, d |-> 2]

\* the count a numeric cell stands for once thousands separators, the peso
\* sign and spaces are stripped; 0 when it is empty or still unparsable
StrippedCount(cell) ==
    LET n == ToNumeric(Remove(Remove(Remove(cell, "₱"), ","), " "))
    IN  IF n.kind = "num" THEN Trunc(n.c) ELSE 0

\* C10: in every dialect a numeric cell is parsed after stripping thousands
\* separators, currency glyphs and whitespace, and an empty or unparsable cell
\* yields 0: the one record of a one-row input carries, as recharge_count
\* (column 3 in all three dialects), the stripped count of that cell.
C10_StripsInEveryDialect ==
    (Called /\ ~std.raised /\ Len(raw_values) = 2 /\ Len(std.df.rows) = 1) =>
        std.df.rows[1].recharge_count = StrippedCount(CellAt(raw_values[2], 3))

\* the count fields of the three dialects
CountFields ==
    {"recharge_count", "total_calls", "not_connected", "answered_calls",
     "people_recalled", "friend_added", "daily_target", "social_media_added"}

\* C11: every count field of every output record of standardize_data and
\* standardize_ftd_data is a non-negative integer, whatever the cell text (a
\* text with a leading minus sign included).
C11_CountsNonNegative ==
    \A k \in 1..Len(std.df.rows) :
        \A f \in CountFields \cap DOMAIN std.df.rows[k] : std.df.rows[k][f] >= 0

\* C12: a call with a year that is neither 2025 nor 2026, on a row set with
\* data rows (so that a column layout has to be chosen), fails with an error;
\* it never falls back to a default column layout.
C12_UnknownYearFails ==
    (Called /\ year \notin {2025, 2026} /\ Len(raw_values) >= 2) => std.raised

(***************************************************************************)
(* Properties of the filter layer and of calculate_kpis (SpecMetrics)      *)
(***************************************************************************)
KpisCalled == call.op = "calculate_kpis"

\* calendar order of two real dates, field by field
Earlier(a, b) ==
    \/ a.y < b.y
    \/ a.y = b.y /\ a.m < b.m
    \/ a.y = b.y /\ a.m = b.m /\ a.d < b.d

\* C4 as claimed: for non-negative counts both rates lie in [0, 100] and each
\* is exactly 0 when its denominator sums to 0.
C4_RatesWithin0To100 ==
    KpisCalled =>
        /\ kpis.connection_rate >= 0 /\ kpis.connection_rate <= 10000
        /\ kpis.conversion_rate_recalled >= 0 /\ kpis.conversion_rate_recalled <= 10000
        /\ SumCol(records, "total_calls") = 0 => kpis.connection_rate = 0
        /\ SumCol(records, "answered_calls") = 0 => kpis.conversion_rate_recalled = 0

\* C4 amended: for non-negative counts both rates are >= 0, each is exactly 0
\* when its denominator sums to 0, and each is at most 100 when its numerator
\* (answered_calls, respectively people_recalled summed over all records) does
\* not exceed its denominator (total_calls, respectively answered_calls).
C4_RatesBounded ==
    KpisCalled =>
        /\ kpis.connection_rate >= 0
        /\ kpis.conversion_rate_recalled >= 0
        /\ SumCol(records, "total_calls") = 0 => kpis.connection_rate = 0
        /\ SumCol(records, "answered_calls") = 0 => kpis.conversion_rate_recalled = 0
        /\ SumCol(records, "answered_calls") <= SumCol(records, "total_calls")
              => kpis.connection_rate <= 10000
        /\ SumCol(records, "people_recalled") <= SumCol(records, "answered_calls")
              => kpis.conversion_rate_recalled <= 10000

\* C4 witness: a summary of records with fewer answered than total calls, with
\* a connection rate strictly between 0 and 100 and a positive recall rate.
C4_Witness ==
    /\ KpisCalled
    /\ kpis.total_calls > kpis.answered_calls
    /\ kpis.connection_rate > 0 /\ kpis.connection_rate < 10000
    /\ kpis.answered_calls > 0 /\ kpis.conversion_rate_recalled > 0

\* C5: people_recalled + vip_recalled equals the people_recalled field summed
\* over all records: each record is counted on exactly one side.
C5_RecallPartition ==
    KpisCalled =>
        kpis.people_recalled + kpis.vip_recalled = SumCol(records, "people_recalled")

\* C5 witness: a record set with recalls on both sides of the split.
C5_Witness == KpisCalled /\ kpis.vip_recalled > 0 /\ kpis.people_recalled > 0

\* C6: filter_by_team(records, []) and filter_by_agent(records, []) return the
\* input record set unchanged.
C6_EmptySelectionIsNoOp ==
    /\ (call.op = "filter_by_team" /\ call.teams = <<>>) => result = records
    /\ (call.op = "filter_by_agent" /\ call.agents = <<>>) => result = records

\* C6 witness: an empty team selection applied to several records of more than
\* one team returned them all.
C6_Witness ==
    /\ call.op = "filter_by_team" /\ call.teams = <<>>
    /\ Len(records.rows) >= 2
    /\ \E i, j \in 1..Len(records.rows) : records.rows[i]._team # records.rows[j]._team
    /\ result = records

\* the ftd_count of the FTD TEAM records dated before the cutoff (before =
\* TRUE), respectively on or after it (before = FALSE)
RECURSIVE FtdCountByCutoff(_, _)
FtdCountByCutoff(rows, before) ==
    IF rows = <<>> THEN 0
    ELSE
        LET r == Head(rows)
            counts ==
                /\ "ftd_count" \in DOMAIN r
                /\ r._team = "FTD TEAM"
                /\ r.date # NaT
                /\ Earlier(r.date, [y |-> 2026, m |-> 1, d |-> 6]) = before
        IN  (IF counts THEN r.ftd_count ELSE 0) + FtdCountByCutoff(Tail(rows), before)

\* C8: ftd_result is the ftd_count of the FTD TEAM records dated strictly
\* before 2026-01-06; the ftd_count of the FTD TEAM records dated on or after
\* it is added to recharge_count instead; no other record changes ftd_result.
C8_FtdCutoffAccounting ==
    KpisCalled =>
        /\ kpis.ftd_result = FtdCountByCutoff(records.rows, TRUE)
        /\ kpis.recharge_count =
              SumCol(records, "recharge_count") + FtdCountByCutoff(records.rows, FALSE)

\* C8 witness: FTD TEAM records on both sides of the cutoff, beside a record
\* of another team.
C8_Witness ==
    /\ KpisCalled
    /\ kpis.ftd_result > 0
    /\ kpis.recharge_count > SumCol(records, "recharge_count")
    /\ \E i \in 1..Len(records.rows) : records.rows[i]._team # "FTD TEAM"

\* C9: filter_by_date_range returns exactly the records whose date d satisfies
\* start <= d <= end, in input order; a record with a null date is never in it.
C9_InclusiveDateRange ==
    call.op = "filter_by_date_range" =>
        /\ result.cols = records.cols
        /\ result.rows =
              SelectSeq(records.rows,
                  LAMBDA r : /\ r.date # NaT
                             /\ ~Earlier(r.date, call.start_date)
                             /\ ~Earlier(call.end_date, r.date))

\* C9 witness: a range from 5 to 6 January over records dated on both bounds
\* and a record without a date kept the dated ones and dropped the other.
C9_Witness ==
    /\ call.op = "filter_by_date_range"
    /\ call.start_date = DayBeforeCutoff /\ call.end_date = jan6_2026
    /\ \E i \in 1..Len(records.rows) : records.rows[i].date = NaT
    /\ \E i \in 1..Len(result.rows) : result.rows[i].date = DayBeforeCutoff
    /\ \E i \in 1..Len(result.rows) : result.rows[i].date = jan6_2026
    /\ Len(result.rows) < Len(records.rows)


(***************************************************************************)
(* Properties of the sheet loader (SpecLoad)                               *)
(***************************************************************************)
RECURSIVE RowCount(_)
RowCount(dfs) == IF dfs = <<>> THEN 0 ELSE Len(dfs[1].rows) + RowCount(Tail(dfs))

\* the rows of the combined frame that precede those of the k-th call's frame
RowsBefore(k) == RowCount(SubSeq(returned, 1, k - 1))

\* C7: combining the per-sheet frames is plain concatenation. The combined
\* frame has as many records as the frames load_sheet_data returned have
\* together, and record j of the k-th sheet's frame stands, unchanged, right
\* after all records of the sheets loaded before it: sheets in list order,
\* rows in sheet order, no record merged or removed.
C7_PlainConcatenation ==
    lpc = "done" =>
        /\ Len(combined_df.rows) = RowCount(returned)
        /\ \A k \in 1..Len(returned) : \A j \in 1..Len(returned[k].rows) :
              combined_df.rows[RowsBefore(k) + j] = returned[k].rows[j]

\* C7 witness: a finished load that combined two or more sheets, holding two
\* records of the same agent and date from different sheets and two from the
\* same sheet.
C7_Witness ==
    /\ lpc = "done"
    /\ Len(all_data) >= 2
    /\ \E i, j \in 1..Len(combined_df.rows) :
          /\ i < j
          /\ combined_df.rows[i].agent_name = combined_df.rows[j].agent_name
          /\ combined_df.rows[i].date = combined_df.rows[j].date
          /\ combined_df.rows[i]._sheet_name # combined_df.rows[j]._sheet_name
    /\ \E i, j \in 1..Len(combined_df.rows) :
          /\ i < j
          /\ combined_df.rows[i] = combined_df.rows[j]


\* the fields of all frames load_sheet_data returned
UnionOfFields == UNION {returned[k].cols : k \in 1..Len(returned)}

\* C13: sheets of both layouts combine without loss or error. Every record of
\* the combined frame carries every field of the union of the frames' fields,
\* a record of a sheet whose layout has no friend_added column carries
\* friend_added = 0, and the combined frame has as many records as the frames
\* together.
C13_UnionOfFields ==
    lpc = "done" =>
        /\ Len(combined_df.rows) = RowCount(returned)
        /\ \A i \in 1..Len(combined_df.rows) :
              LET r == combined_df.rows[i]
              IN  /\ DOMAIN r = UnionOfFields
                  /\ "friend_added" \notin DOMAIN (IF r._year = 2026 THEN COLUMN_POSITIONS_2026
                                                     ELSE COLUMN_POSITIONS)
                        => ("friend_added" \in DOMAIN r /\ r.friend_added = 0)

\* C13 witness: a finished load that combined a 2025 sheet, which has no
\* friend_added column, with a 2026 sheet whose record has friends added.
C13_Witness ==
    /\ lpc = "done"
    /\ \E i, j \in 1..Len(combined_df.rows) :
          /\ combined_df.rows[i]._year = 2025
          /\ combined_df.rows[i].friend_added = 0
          /\ combined_df.rows[j]._year = 2026
          /\ combined_df.rows[j].friend_added > 0


(***************************************************************************)
(* Properties of the grouped metrics (SpecAgg)                             *)
(***************************************************************************)
\* the latest day on which the record set has a record, as a day number
LastDay ==
    CHOOSE n \in {DayNum(DateOf(records.rows[i])) :
                     i \in {j \in 1..Len(records.rows) : DateOf(records.rows[j]) # NaT}} :
        \A i \in 1..Len(records.rows) :
            DateOf(records.rows[i]) = NaT \/ DayNum(DateOf(records.rows[i])) <= n

\* the distinct agent names of all records when none has a date, else of the
\* records dated at most back days before the latest day
ActiveNames(back) ==
    LET named == {i \in 1..Len(records.rows) : HasValue(records.rows[i], "agent_name")}
        dated == {i \in named : DateOf(records.rows[i]) # NaT}
    IN  IF \A i \in 1..Len(records.rows) : DateOf(records.rows[i]) = NaT
        THEN {records.rows[i].agent_name : i \in named}
        ELSE {records.rows[i].agent_name :
                 i \in {j \in dated : LastDay - DayNum(DateOf(records.rows[j])) <= back}}

\* C14: active_agents counts the distinct agent names of the records dated
\* within the 7 calendar days up to and including the latest date (the latest
\* date and the 6 days before it); of all records when none has a date.
C14_SevenCalendarDays ==
    KpisCalled => kpis.active_agents = Cardinality(ActiveNames(6))


\* the teams of the record set
TeamsOfRecords == {records.rows[i]._team : i \in 1..Len(records.rows)}

\* the sum of field f over the records of team t
RECURSIVE TeamSum(_, _, _)
TeamSum(rows, t, f) ==
    IF rows = <<>> THEN 0
    ELSE (IF Head(rows)._team = t THEN Head(rows)[f] ELSE 0) + TeamSum(Tail(rows), t, f)

\* the first record of team t, in input order
FirstOfTeam(t) ==
    records.rows[CHOOSE i \in 1..Len(records.rows) :
                    /\ records.rows[i]._team = t
                    /\ \A j \in 1..(i - 1) : records.rows[j]._team # t]

\* C15: calculate_team_metrics returns exactly one row per distinct team of the
\* record set; the row's count fields are the sums over that team's records,
\* and its team_leader is the team leader of the team's first record.
C15_OneRowPerTeam ==
    (call.op = "calculate_team_metrics" /\ ~IsEmpty(records)) =>
        /\ Len(result.rows) = Cardinality(TeamsOfRecords)
        /\ {result.rows[k].team : k \in 1..Len(result.rows)} = TeamsOfRecords
        /\ \A k \in 1..Len(result.rows) :
              LET r == result.rows[k]
              IN  /\ \A f \in sum_cols : r[f] = TeamSum(records.rows, r.team, f)
                  /\ "_team_leader" \in records.cols
                        => r.team_leader = FirstOfTeam(r.team)._team_leader

\* C15 witness: two rows for the records of two teams, one of which has
\* records under two team leaders and carries the first.
C15_Witness ==
    /\ call.op = "calculate_team_metrics"
    /\ "_team_leader" \in records.cols
    /\ Len(result.rows) = 2
    /\ \E i, j \in 1..Len(records.rows) :
          /\ i < j
          /\ records.rows[i]._team = records.rows[j]._team
          /\ records.rows[i]._team_leader # records.rows[j]._team_leader
          /\ \E k \in 1..Len(result.rows) :
                /\ result.rows[k].team = records.rows[i]._team
                /\ result.rows[k].team_leader = records.rows[i]._team_leader
                /\ result.rows[k].total_calls
                      = records.rows[i].total_calls + records.rows[j].total_calls


\* the rank column of a ranked metric
RankOf(row, metric) ==
    CASE metric = "answered_calls" -> row.answered_calls_rank
      [] metric = "connection_rate" -> row.connection_rate_rank
      [] metric = "people_recalled" -> row.people_recalled_rank

\* the teams of the comparison with a strictly greater value of a metric
Better(k, metric) ==
    {j \in 1..Len(result.rows) :
        FracLT(Value(result.rows[k], metric), Value(result.rows[j], metric))}

\* C16: in calculate_team_comparison a team's rank in each ranked metric is 1
\* plus the number of teams with a strictly greater value: the best team has
\* rank 1, tied teams share the smaller rank, the rank after a tie skips.
C16_RankCountsBetterTeams ==
    (call.op = "calculate_team_comparison" /\ ~call.raised) =>
        \A k \in 1..Len(result.rows) : \A metric \in ranked_metrics :
            RankOf(result.rows[k], metric) = 1 + Cardinality(Better(k, metric))

\* C16 witness: three teams, two of them tied in answered calls at rank 1 and
\* the third at rank 3.
C16_Witness ==
    /\ call.op = "calculate_team_comparison"
    /\ Len(result.rows) = 3
    /\ {result.rows[k].answered_calls_rank : k \in 1..3} = {1, 3}
    /\ result.rows[1].answered_calls_rank = 1
    /\ result.rows[2].answered_calls_rank = 1
    /\ result.rows[1].answered_calls = result.rows[2].answered_calls

TopCalled == call.op = "get_top_performers"

\* the grouped frame get_top_performers selects from
AgentMetricsOfRecords == calculate_agent_metrics(records)

\* the metric asked for is a column of the grouped frame
HasMetric ==
    /\ ~IsEmpty(AgentMetricsOfRecords)
    /\ call.metric \in AgentMetricsOfRecords.cols

\* the position in agent_metrics of each returned row (its keys are distinct)
PickedAt(am, i) == CHOOSE k \in 1..Len(am.rows) : am.rows[k] = result.rows[i]

\* the returned rows are the top_n largest of agent_metrics by the metric, in
\* descending order, a tie going to the row earlier in agent_metrics
TopOfAgentMetrics ==
    LET am == AgentMetricsOfRecords
        n == Len(result.rows)
        v(k) == Value(am.rows[k], call.metric)
        picked == {PickedAt(am, i) : i \in 1..n}
    IN  /\ n = (IF call.top_n < Len(am.rows) THEN call.top_n ELSE Len(am.rows))
        /\ \A i \in 1..n : \E k \in 1..Len(am.rows) : am.rows[k] = result.rows[i]
        /\ Cardinality(picked) = n
        /\ \A i \in 1..(n - 1) :
              /\ ~FracLT(v(PickedAt(am, i)), v(PickedAt(am, i + 1)))
              /\ v(PickedAt(am, i)) = v(PickedAt(am, i + 1))
                    => PickedAt(am, i) < PickedAt(am, i + 1)
        /\ \A k \in picked : \A j \in (1..Len(am.rows)) \ picked :
              /\ ~FracLT(v(k), v(j))
              /\ v(k) = v(j) => k < j

\* C17 as claimed: for every metric that agent_metrics has, get_top_performers
\* returns the min(n, rows) largest rows in descending order with ties to the
\* earlier row, and for any other metric an empty result.
C17_TopForEveryColumn ==
    TopCalled =>
        /\ ~call.raised
        /\ IF HasMetric THEN TopOfAgentMetrics ELSE result = EmptyFrame

\* C17: for a metric that is a numeric column of agent_metrics,
\* get_top_performers returns the min(n, rows) largest rows in descending
\* order, every returned value >= every value left out, ties to the row earlier
\* in agent_metrics; for a metric agent_metrics does not have the result is
\* empty; for the text columns agent_name and team the call raises.
C17_TopByNumericMetric ==
    TopCalled =>
        IF ~HasMetric THEN ~call.raised /\ result = EmptyFrame
        ELSE IF call.metric \in text_cols THEN call.raised
        ELSE ~call.raised /\ TopOfAgentMetrics

\* C17 witness: one row of two agents tied on the metric is returned and the
\* other, later in agent_metrics, is left out.
C17_Witness ==
    /\ TopCalled
    /\ HasMetric
    /\ call.metric = "connection_rate"
    /\ call.top_n = 1
    /\ Len(result.rows) = 1
    /\ \E j \in 2..Len(AgentMetricsOfRecords.rows) :
          /\ AgentMetricsOfRecords.rows[j].connection_rate = result.rows[1].connection_rate
          /\ AgentMetricsOfRecords.rows[1] = result.rows[1]

DailyCalled == call.op = "calculate_daily_metrics"

\* the distinct non-null dates of the records
DatesOfRecords ==
    {records.rows[i].date : i \in {j \in 1..Len(records.rows) :
        "date" \in DOMAIN records.rows[j] /\ records.rows[j].date # NaT}}

\* the sum of field f over the records dated d
RECURSIVE DateSum(_, _, _)
DateSum(rows, d, f) ==
    IF rows = <<>> THEN 0
    ELSE (IF Head(rows).date = d THEN Head(rows)[f] ELSE 0) + DateSum(Tail(rows), d, f)

\* C18: calculate_daily_metrics returns exactly one row per distinct non-null
\* date of the record set, in ascending date order, each row holding the sums
\* of the count fields over the records of that date; records with a null date
\* contribute to no row.
C18_OneRowPerDate ==
    DailyCalled =>
        /\ Len(result.rows) = Cardinality(DatesOfRecords)
        /\ {result.rows[k].date : k \in 1..Len(result.rows)} = DatesOfRecords
        /\ \A k \in 1..(Len(result.rows) - 1) :
              Earlier(result.rows[k].date, result.rows[k + 1].date)
        /\ \A k \in 1..Len(result.rows) : \A f \in sum_cols :
              result.rows[k][f] = DateSum(records.rows, result.rows[k].date, f)

\* C18 witness: records of two dates, the later one first, two of them on one
\* date, and one record with a null date, give two rows.
C18_Witness ==
    /\ DailyCalled
    /\ Len(records.rows) = 3
    /\ Len(result.rows) = 2
    /\ records.rows[1].date = result.rows[2].date
    /\ \E i \in 1..3 : records.rows[i].date = NaT
    /\ result.rows[1].total_calls + result.rows[2].total_calls
          < SumRows(records.rows, "total_calls")

(***************************************************************************)
(* Properties of the empty inputs (SpecEmpty)                              *)
(***************************************************************************)
\* C19: calculate_kpis of an empty record set (nothing loaded, or every row
\* filtered away) is a summary whose counts and rates are all 0, and
\* standardize_data / standardize_ftd_data of no rows or of the header row
\* alone is the empty dataset; none of them raises.
C19_EmptyInEmptyOut ==
    /\ (KpisCalled /\ (records.cols = {} \/ Len(records.rows) = 0)) =>
          /\ ~call.raised
          /\ \A f \in DOMAIN kpis : kpis[f] = 0
    /\ (Called /\ Len(raw_values) <= 1) =>
          /\ ~std.raised
          /\ std.df.rows = <<>>

\* C19 witness: the team filter left the columns and no row, the KPIs were
\* computed from that, and the normalizer was given the header row alone.
C19_Witness ==
    /\ KpisCalled
    /\ records.cols # {}
    /\ records.rows = <<>>
    /\ Called
    /\ Len(raw_values) = 1

(***************************************************************************)
(* Properties of the FTD metrics (SpecAgg)                                 *)
(***************************************************************************)
\* C20 as claimed: calculate_ftd_kpis, calculate_ftd_agent_metrics and
\* calculate_ftd_daily_metrics return their result without error for every
\* record set, the empty one included (and leave the configured FTD leader out
\* of the agent population of that result).
C20_FtdOperationsReturn ==
    call.op \in ftd_operations => ~call.raised

(***************************************************************************)
(* Properties of the loader's tags, retries and failures (SpecLoad)        *)
(***************************************************************************)
\* the configuration entry of the sheet the k-th returned frame was loaded
\* from, and the year it was requested for
EntryOfCall(k) ==
    IF lpc \in {"ftd", "ftd_done"}
    THEN [sheet |-> "FTD TEAM ANDREI", team |-> "FTD TEAM", tl |-> "ANDREI", year |-> years[1]]
    ELSE LET c == WorkList(years)[k]
             config == IF c.year = 2026 THEN SHEET_CONFIG_2026 ELSE SHEET_CONFIG
             e == config[CHOOSE i \in 1..Len(config) : config[i].sheet = c.sheet_name]
         IN  [sheet |-> c.sheet_name, team |-> e.team, tl |-> e.tl, year |-> c.year]

provenance_tags == {"_team", "_team_leader", "_sheet_name", "_year"}

\* C21: every record that load_sheet_data or load_ftd_data returns for a sheet
\* carries _team, _team_leader and _sheet_name of that sheet's configuration
\* entry and _year of the requested year, so every record that
\* load_all_sheets_data returns has the four provenance tags.
C21_ProvenanceTags ==
    /\ \A k \in 1..Len(returned) : \A j \in 1..Len(returned[k].rows) :
          LET r == returned[k].rows[j]
              e == EntryOfCall(k)
          IN  /\ provenance_tags \subseteq DOMAIN r
              /\ r._team = e.team
              /\ r._team_leader = e.tl
              /\ r._sheet_name = e.sheet
              /\ r._year = e.year
    /\ \A j \in 1..Len(combined_df.rows) : provenance_tags \subseteq DOMAIN combined_df.rows[j]

\* C21 witness: a combined dataset with records of a 2025 sheet and of a 2026
\* sheet, tagged with different leaders.
C21_Witness ==
    /\ lpc = "done"
    /\ Len(combined_df.rows) >= 2
    /\ \E i, j \in 1..Len(combined_df.rows) :
          /\ combined_df.rows[i]._year = 2025
          /\ combined_df.rows[j]._year = 2026
          /\ combined_df.rows[i]._team_leader # combined_df.rows[j]._team_leader

\* a call of load_sheet_data or load_ftd_data has returned, and no other has
\* started since
LoaderReturned == retry_count = 0 /\ met # <<>>

\* the waits the claim names, in seconds
backoff_seconds == <<10, 20, 40>>

\* C23: a call of load_sheet_data or load_ftd_data makes at most 4 fetch
\* attempts, retries only after a rate-limit (429) error, waits 10 s, 20 s and
\* 40 s before its successive retries, and when every attempt met a 429 it
\* ends after the fourth with an empty dataset.
C23_BoundedBackoff ==
    /\ Len(met) <= 4
    /\ Len(waits) <= 3
    /\ \A i \in 1..Len(waits) : waits[i] = backoff_seconds[i]
    /\ retry_count > 0 =>
          /\ Len(met) = retry_count
          /\ Len(waits) = retry_count
          /\ \A i \in 1..Len(met) : met[i] = "api_429"
    /\ LoaderReturned =>
          /\ Len(waits) = Len(met) - 1
          /\ \A i \in 1..(Len(met) - 1) : met[i] = "api_429"
          /\ (\A i \in 1..Len(met) : met[i] = "api_429") =>
                /\ Len(met) = 4
                /\ returned[Len(returned)] = EmptyFrame

\* C23 witness: a call of load_sheet_data that met a 429 four times, waited
\* 10 s, 20 s and 40 s and returned the empty dataset.
C23_Witness ==
    /\ lpc = "load"
    /\ LoaderReturned
    /\ met = <<"api_429", "api_429", "api_429", "api_429">>
    /\ waits = <<10, 20, 40>>
    /\ returned[Len(returned)] = EmptyFrame

RECURSIVE RowsOf(_)
RowsOf(dfs) == IF dfs = <<>> THEN <<>> ELSE dfs[1].rows \o RowsOf(Tail(dfs))

\* the frames with records, in the order load_sheet_data returned them
WithRecords == SelectSeq(returned, LAMBDA df : df.rows # <<>>)

\* C25: load_all_sheets_data does not propagate a failure of one sheet. A call
\* of load_sheet_data whose fetch failed returns the empty frame; the loop goes
\* on to every sheet of the list, keeps the frames that have records and no
\* other; the result is the empty frame when none has records, and else holds
\* the records of the sheets that have some.
C25_FailedSheetsSkipped ==
    /\ (lpc = "load" /\ LoaderReturned /\ met[Len(met)] # "rows")
          => returned[Len(returned)] = EmptyFrame
    /\ lpc \in {"load", "done"} => all_data = WithRecords
    /\ lpc = "done" =>
          /\ Len(returned) = Len(WorkList(years))
          /\ WithRecords = <<>> => combined_df = EmptyFrame
          /\ combined_df.rows = RowsOf(WithRecords)

\* C25 witness: a finished load whose last sheet failed and whose result holds
\* the records of an earlier sheet
C25_Witness ==
    /\ lpc = "done"
    /\ met[Len(met)] \in {"not_found", "api_error", "no_client", "api_429"}
    /\ returned[Len(returned)] = EmptyFrame
    /\ combined_df.rows # <<>>

(***************************************************************************)
(* Properties of the leader test (SpecOverview)                            *)
(***************************************************************************)
\* the words of an upper-cased name: the pieces between single spaces
Words(name) == Split(Upper(name), " ")

\* TL stands as a word of the name with a space on both sides
HasLeaderWord(name) ==
    \E i \in 2..(Len(Words(name)) - 1) : Words(name)[i] = <<"T", "L">>

\* the word ATL, followed by a space, stands after a dash and a space
HasAssistantWord(name) ==
    \E i \in 2..(Len(Words(name)) - 1) :
       /\ Words(name)[i] = <<"A", "T", "L">>
       /\ Words(name)[i - 1] # <<>>
       /\ Words(name)[i - 1][Len(Words(name)[i - 1])] = "-"

\* the letters ATL occur in the name, in any case
HasAtlLetters(name) == Contains(Upper(name), <<"A", "T", "L">>)

\* the people_recalled of the records of the page that satisfy a test on the
\* name, and of those that do not
RecalledOf(leaders) ==
    SumRows(SelectSeq(records.rows, LAMBDA r : NameOf(r) \in leaders), "people_recalled")

RecalledNotOf(leaders) ==
    SumRows(SelectSeq(records.rows, LAMBDA r : NameOf(r) \notin leaders), "people_recalled")

NamesOfRecords == {NameOf(records.rows[i]) : i \in 1..Len(records.rows)}

SplitCalled ==
    /\ call.op \in {"calculate_kpis", "teams_overview"}
    /\ "agent_name" \in records.cols
    /\ "people_recalled" \in records.cols

\* C26 as claimed: a record is a leader's exactly when its name has a TL marker
\* and has not the letters ATL; vip_recalled sums the leaders' people_recalled,
\* people_recalled the others', and those of every name with ATL in it.
C26_LeaderUnlessAtl ==
    SplitCalled =>
        LET leaders == {n \in NamesOfRecords : HasLeaderWord(n) /\ ~HasAtlLetters(n)}
        IN  /\ kpis.vip_recalled = RecalledOf(leaders)
            /\ kpis.people_recalled = RecalledNotOf(leaders)

\* C26: a record is a leader's exactly when its name, upper-cased, has TL as a
\* word with a space on both sides and has not the assistant marker in the
\* form dash, space, ATL, space; vip_recalled sums the people_recalled of the
\* leaders' records and people_recalled of all others, among them every record
\* with that assistant marker.
C26_LeaderByMarkers ==
    SplitCalled =>
        LET leaders == {n \in NamesOfRecords : HasLeaderWord(n) /\ ~HasAssistantWord(n)}
        IN  /\ kpis.vip_recalled = RecalledOf(leaders)
            /\ kpis.people_recalled = RecalledNotOf(leaders)

\* C26 witness: the KPIs of a leader's record and an assistant's record
C26_Witness ==
    /\ SplitCalled
    /\ \E i, j \in 1..Len(records.rows) :
          /\ NameOf(records.rows[i]) \in {NameLeader, NameOniLeader}
          /\ NameOf(records.rows[j]) = NameAssistant
    /\ kpis.vip_recalled > 0
    /\ kpis.people_recalled > 0

\* C27: the table and the KPIs split the recalls alike. When every record has
\* a team, the VIP Recalled column of the Teams Overview sums to vip_recalled
\* of calculate_kpis and the Recalled column to people_recalled.
C27_OverviewSumsToKpis ==
    (call.op = "teams_overview" /\ "_team" \in records.cols) =>
        /\ SumRows(result.rows, "vip_recalled") = kpis.vip_recalled
        /\ SumRows(result.rows, "people_recalled") = kpis.people_recalled

(***************************************************************************)
(* Properties of the page pipeline (SpecPipeline)                          *)
(***************************************************************************)
OnPage == lpc \in {"main", "ftd_page"}

\* C29: no dataset that comes out of the loaders, filtered or not, has an
\* ftd_count field, and none that load_all_sheets_data returned has a record of
\* the FTD team; so calculate_kpis gives ftd_result = 0 and a recharge_count
\* that is the plain sum of the recharge_count field.
C29_NoFtdAccounting ==
    /\ OnPage => "ftd_count" \notin records.cols
    /\ lpc = "main" =>
          \A i \in 1..Len(records.rows) : records.rows[i]._team # "FTD TEAM"
    /\ (OnPage /\ KpisCalled) =>
          /\ kpis.ftd_result = 0
          /\ kpis.recharge_count = SumCol(records, "recharge_count")

\* C29 witness: the KPIs of the FTD sheet's records, tagged FTD TEAM and dated
\* after the cutoff, with recharges counted
C29_Witness ==
    /\ lpc = "ftd_page"
    /\ KpisCalled
    /\ \E i \in 1..Len(records.rows) :
          /\ records.rows[i]._team = "FTD TEAM"
          /\ records.rows[i].date = nov2_2026
    /\ kpis.recharge_count > 0
    /\ kpis.ftd_result = 0

(***************************************************************************)
(* Properties of the cache in front of the loaders (SpecCache)             *)
(***************************************************************************)

\* C24: the first load after refresh_data() serves nothing from the cache: every
\* call of load_sheet_data, load_all_sheets_data and load_ftd_data it makes runs
\* the function body, and no call ever returns a dataset that was stored before
\* a refresh
C24_RefreshDropsEverything ==
    /\ refreshed = "loaded" => served # {} /\ \A x \in served : ~x.hit
    /\ \A x \in served : ~x.pre

\* a first load after a refresh in which load_all_sheets_data built a dataset
\* with records
C24_Witness ==
    /\ refreshed = "loaded"
    /\ \E x \in served :
          x.key.fn = "load_all_sheets_data" /\ ~x.hit /\ ~IsEmpty(x.value)

\* C30: once the body of a loader returned for an argument tuple, every call
\* with that tuple made less than ttl seconds later and before a refresh_data()
\* is served that same result from the cache, the empty dataset included
C30_CachedForTtl ==
    [][\A x \in served' :
          \A e \in history : e.key = x.key => x.hit /\ x.value = e.value]_vars

\* a call served the empty dataset a failed or rate-limited fetch left in the
\* cache
C30_Witness ==
    \E x \in served :
       /\ x.hit
       /\ x.key.retry = 0
       /\ IsEmpty(x.value)
       /\ \E e \in cache : e.key = x.key /\ e.age > 0

====
